---- MODULE Spec2Model ----
(***************************************************************************)
(* Model of the ottoman-routing search control (src/src/search-control.js, *)
(* the module starting at line 926) and of its helpers                     *)
(* (src/unnamed/part_003, the helpers module starting at line 99).         *)
(*                                                                         *)
(* Spec      the control: the two selection slots, map clicks, the clear   *)
(*           buttons, the programmatic API and the route fetches with      *)
(*           their responses.                                              *)
(* SpecSuggest the control: typed search with debounce, suggestion rows    *)
(*           and their selection by click or Enter.                        *)
(* SpecNorm  normalizeFeatures applied to bounded raw corpora.             *)
(* SpecSearch searchForRole applied to bounded matcher outputs, then the   *)
(*           arrow keys, Escape and a click outside the control.           *)
(* SpecItin  updateSidebarForRoute applied to bounded route payloads.      *)
(* SpecSwitch updateSidebarForRoute applied to routes through a switch.    *)
(* SpecApi   the control driven through its returned API only.             *)
(* SpecLive  Spec with the pending focus timers fired eventually.          *)
(* SpecSelect the three ways of selecting a Location (row click, Enter,    *)
(*           map click) with the focus timers fired eventually.            *)
(* SpecNode  a displayed itinerary: expanding node cards, the node-detail  *)
(*           fetches and the year slider.                                  *)
(* SpecFit   fitBoundsForGeoJSON applied to bounded point sets.            *)
(* SpecPick  the suggestion list of one role: the arrow keys, Enter and    *)
(*           clicks on its rows.                                           *)
(* SpecType  bursts of input events and the debounce timers they leave.    *)
(* SpecName  getPreferredNodeName on the nodes of bounded routes.          *)
(* SpecAlt   getNodeAlternateNames applied to bounded corpora.             *)
(* SpecColour the colours fetchAndRenderRouteIfReady gives to the          *)
(*           segments of bounded route payloads.                           *)
(***************************************************************************)
EXTENDS Integers, Sequences, FiniteSets, TLC

VARIABLES
    selected,          \* selected[role]: index into allFeatures, 0 for null
    input,             \* state[role].input.value
    lastResults,       \* state[role].lastResults: sequence of [item, score]
    rows,              \* children of state[role].suggestionsEl
    selectableIndices, \* state[role].selectableIndices
    activeIndex,       \* state[role].activeIndex
    debounce,          \* number of pending search timers of each role
    activeRole,        \* activeRole: "source", "target" or "none" (null)
    focusTimers,       \* roles whose input has a setTimeout(focus, 0) pending
    inflight,          \* route fetches awaiting their response
    reqCount,          \* number of route fetches issued so far
    routeMap,          \* data of the map source 'search-route'
    sidebar,           \* itinerary rows in #mlSidebar (<<>> when emptied)
    lastResponse,      \* the route fetch that ended last and how it ended
    mapCursor,         \* style.cursor of the map canvas
    sinceSelect,       \* role -> a row was selected and nothing typed since
    rawIn,             \* SpecNorm: the raw features handed to normalizeFeatures
    normOut,           \* SpecNorm: what normalizeFeatures returned
    fuseOut,           \* SpecSearch: what fuse.search returned
    routeIn,           \* SpecItin: the route payload handed to the sidebar
    returned,          \* the object the host got from getSelected()
    escaped,           \* an Escape keydown has reached an input's handler
    superseded,        \* role -> its pending search timer replaced another
    fitIn,             \* SpecFit: the points and the map fitBounds is given
    fitOut,            \* SpecFit: the view fitBoundsForGeoJSON asked for
    altIn,             \* SpecAlt: a corpus, a node and its display name
    altOut,            \* SpecAlt: what getNodeAlternateNames returned
    colIn,             \* SpecColour: a route payload and a shuffled palette
    colOut,            \* SpecColour: the colours the route is displayed in
    year,              \* state.settings.year
    nodeLinesCache,    \* nodeLinesCache: node identifier -> payload
    nodeFetches,       \* node-detail fetches awaiting their response
    nodeReqCount       \* number of node-detail fetches issued so far

vars == <<selected, input, lastResults, rows, selectableIndices, activeIndex,
          debounce, activeRole, focusTimers, inflight, reqCount, routeMap,
          sidebar, lastResponse, mapCursor, sinceSelect, rawIn, normOut,
          fuseOut, routeIn, returned, escaped, superseded, fitIn, fitOut,
          altIn, altOut, colIn, colOut, year,
          nodeLinesCache, nodeFetches, nodeReqCount>>

Roles == {"source", "target"}

\* v is computed once and handed to F: the value of a JavaScript local
Bind(v, F(_)) == CHOOSE out \in { F(x) : x \in {v} } : TRUE

Other(role) == IF role = "source" THEN "target" ELSE "source"

(***************************************************************************)
(* JavaScript values.  An absent property reads as undefined.              *)
(***************************************************************************)
Undef == [t |-> "undefined"]
Null == [t |-> "null"]
NaN == [t |-> "NaN"]
Num(n) == [t |-> "number", v |-> n]
Str(s) == [t |-> "string", s |-> s]

IsNullish(x) == x = Undef \/ x = Null

\* a ?? b
Coalesce(a, b) == IF IsNullish(a) THEN b ELSE a

DigitStr == <<"0", "1", "2", "3", "4", "5", "6", "7", "8", "9">>

RECURSIVE NumStr(_)
NumStr(n) ==
    IF n < 10 THEN DigitStr[n + 1]
    ELSE NumStr(n \div 10) \o DigitStr[(n % 10) + 1]

\* String(x)
StringOf(x) ==
    CASE x.t = "undefined" -> "undefined"
      [] x.t = "null" -> "null"
      [] x.t = "NaN" -> "NaN"
      [] x.t = "number" -> NumStr(x.v)
      [] x.t = "string" -> x.s

\* !x is false
Truthy(x) ==
    CASE x.t = "undefined" -> FALSE
      [] x.t = "null" -> FALSE
      [] x.t = "NaN" -> FALSE
      [] x.t = "number" -> x.v # 0
      [] x.t = "string" -> x.s # ""

\* a || b
OrElse(a, b) == IF Truthy(a) THEN a ELSE b

\* The strings of the model that parse as numbers, and Number(x).
NumericStrings == {"0", "1", "2", "3", "4", "5", "6", "7", "8", "9"}

DigitOf(s) == CHOOSE d \in 0..9 : DigitStr[d + 1] = s

NumberOf(x) ==
    CASE x.t = "undefined" -> NaN
      [] x.t = "null" -> Num(0)
      [] x.t = "NaN" -> NaN
      [] x.t = "number" -> x
      [] x.t = "string" ->
            IF x.s = "" THEN Num(0)
            ELSE IF x.s \in NumericStrings THEN Num(DigitOf(x.s))
            ELSE NaN

(***************************************************************************)
(* helpers.js: normalizeFeatures.  A raw record is                         *)
(*   [id, geometry, properties: [id, ID, name, title, rank, cluster]]      *)
(* with Undef for every key the record does not have.  The object literal  *)
(* ends with ...p, so every key p has replaces the value computed before   *)
(* it.                                                                     *)
(***************************************************************************)
PropKeys == {"id", "ID", "name", "title", "rank", "cluster"}

RankSentinel == 9999

\* { id: fid, name: ..., rank: ..., ...p }
SpreadOver(base, p) ==
    [k \in PropKeys |-> IF p[k] # Undef THEN p[k] ELSE base[k]]

normalizeFeature(f) ==
    LET p == f.properties
        rawId == IF ~IsNullish(f.id) THEN f.id
                 ELSE Coalesce(p["id"], Coalesce(p["ID"], Str("")))
        fid == IF IsNullish(rawId) THEN "" ELSE StringOf(rawId)
        base == [k \in PropKeys |->
                    CASE k = "id" -> Str(fid)
                      [] k = "name" ->
                            Coalesce(p["name"], Coalesce(p["title"], Str("")))
                      [] k = "rank" ->
                            IF p["rank"] # Undef THEN NumberOf(p["rank"])
                            ELSE Num(RankSentinel)
                      [] OTHER -> Undef]
    IN  [geometry |-> f.geometry, properties |-> SpreadOver(base, p)]

normalizeFeatures(features) ==
    [i \in 1..Len(features) |-> normalizeFeature(features[i])]

(***************************************************************************)
(* The corpus of the control.  Coordinates are in units of 0.0005 degree.  *)
(* Records 1 and 3 are two names of the node "A"; record 1 lies at the     *)
(* origin (no usable geometry).  Record 2 names "A" as its cluster.        *)
(* Record 4 has no identifier and no rank; record 5 is the only record of  *)
(* node "C" and lies at the origin.  Records 6 to 8 are a second    *)
(* are a second cluster, far from every click of the model and matched by  *)
(* none of its typed queries: node "E" and its members "F" and "G", the    *)
(* later member of the better rank.                                        *)
(***************************************************************************)
Point(x, y) == [type |-> "Point", coordinates |-> <<x, y>>]

RawRecord(id, name, rank, cluster, geometry) ==
    [id |-> Undef,
     geometry |-> geometry,
     properties |-> [k \in PropKeys |->
                        CASE k = "id" -> id
                          [] k = "name" -> name
                          [] k = "rank" -> rank
                          [] k = "cluster" -> cluster
                          [] OTHER -> Undef]]

RawCorpus ==
    << RawRecord(Str("A"), Str("Galata Kulesi"), Num(4), Null, Point(0, 0)),
       RawRecord(Str("B"), Str("Karakoy"), Num(3), Str("A"), Point(20, 40)),
       RawRecord(Str("A"), Str("Galata"), Num(4), Null, Point(20, 20)),
       RawRecord(Undef, Str("Eyub"), Undef, Null, Point(60, 40)),
       RawRecord(Str("C"), Str("Kasimpasa"), Num(5), Null, Point(0, 0)),
       RawRecord(Str("E"), Str("Uskudar"), Num(4), Null, Point(400, 20)),
       RawRecord(Str("F"), Str("Iskele"), Num(5), Str("E"), Point(400, 40)),
       RawRecord(Str("G"), Str("Salacak"), Num(3), Str("E"), Point(400, 60)) >>

\* const allFeatures = normalizeFeatures(geojson.features || [])
allFeatures == normalizeFeatures(RawCorpus)

Items == 1..Len(allFeatures)

props(i) == allFeatures[i].properties

\* the identifier of a slot's Location as the code compares it: String(id)
IdStr(i) == StringOf(props(i)["id"])

(***************************************************************************)
(* The fuzzy matcher (Fuse, an external library) is represented by its     *)
(* answers on the queries of the model: the texts a user types and the     *)
(* names a selection writes into an input.  Scores are in thousandths;     *)
(* the matcher returns them ascending (shouldSort) and never above its     *)
(* threshold 0.33.                                                         *)
(***************************************************************************)
Hit(i, score) == [item |-> i, score |-> score]

TypedQueries == {"ka"}

fuse_search(q) ==
    CASE q = "ka" -> << Hit(5, 100), Hit(2, 200) >>
      [] q = "ga" -> << Hit(1, 100), Hit(3, 100) >>
      [] q = "Galata" -> << Hit(3, 0), Hit(1, 150) >>
      [] q = "Galata Kulesi" -> << Hit(1, 0), Hit(3, 250) >>
      [] q = "Karakoy" -> << Hit(2, 0) >>
      [] q = "Kasimpasa" -> << Hit(5, 0) >>
      [] q = "Eyub" -> << Hit(4, 0) >>
      [] OTHER -> << >>

(***************************************************************************)
(* searchForRole: the re-sort of the matcher's answer.  Array.sort is      *)
(* stable; a comparator result of NaN counts as 0.                         *)
(***************************************************************************)
SyntheticScore == 1000

maxSuggestions == 3

\* a - b on JavaScript values, 0 standing for NaN as Array.sort reads it
Minus(a, b) ==
    LET x == NumberOf(a)
        y == NumberOf(b)
    IN  IF x = NaN \/ y = NaN THEN 0 ELSE x.v - y.v

\* a comparator that looks at the score alone (what the rank tie-break adds
\* is seen by comparing with it)
compareScoresOnly(a, b) == a.score - b.score

\* the comparator handed to raw.sort
compareHits(a, b) ==
    LET sc == a.score - b.score
        ra == Coalesce(props(a.item)["rank"], Num(RankSentinel))
        rb == Coalesce(props(b.item)["rank"], Num(RankSentinel))
    IN  IF sc # 0 THEN sc ELSE Minus(ra, rb)

\* x goes behind the last entry that does not come after it
InsertHit(sorted, x) ==
    LET notAfter == { j \in DOMAIN sorted : compareHits(sorted[j], x) <= 0 }
        at == IF notAfter = {} THEN 0
              ELSE CHOOSE j \in notAfter : \A i \in notAfter : i <= j
    IN  SubSeq(sorted, 1, at) \o << x >> \o SubSeq(sorted, at + 1, Len(sorted))

\* the first n entries of raw, sorted
RECURSIVE sortPrefix(_, _)
sortPrefix(raw, n) ==
    IF n = 0 THEN << >>
    ELSE Bind(sortPrefix(raw, n - 1), LAMBDA sorted : InsertHit(sorted, raw[n]))

sortHits(raw) == sortPrefix(raw, Len(raw))

(***************************************************************************)
(* renderSuggestionsForRole.  Positions in lastResults are counted from 0  *)
(* as in the code; resIndex -1 marks an entry taken from allFeatures.      *)
(***************************************************************************)
Entry(resIndex, item) == [resIndex |-> resIndex, item |-> item]

NoHeader == Entry(-1, 0)

clusterOf(i) == props(i)["cluster"]

HasCluster(i) == ~IsNullish(clusterOf(i))

nodeIdsInResults(results) ==
    { IdStr(results[k].item) :
        k \in { j \in DOMAIN results : ~IsNullish(props(results[j].item)["id"]) } }

\* targets named by the matches only
clusterTargetsOfMatches(results) ==
    { StringOf(clusterOf(results[k].item)) :
        k \in { j \in DOMAIN results : HasCluster(results[j].item) } }

clusterTargets(results) ==
    { StringOf(clusterOf(results[k].item)) :
        k \in { j \in DOMAIN results : HasCluster(results[j].item) } }
    \cup
    { StringOf(clusterOf(i)) :
        i \in { j \in Items : HasCluster(j)
                    /\ StringOf(clusterOf(j)) \in nodeIdsInResults(results) } }

\* Second pass: group the results (lines 1487-1515).
RECURSIVE groupResults(_, _, _, _)
groupResults(results, targets, k, acc) ==
    IF k > Len(results) THEN acc
    ELSE
      LET item == results[k].item
          nodeId == IdStr(item)
          resIndex == k - 1
          g == acc.groups
          next ==
            IF nodeId \in acc.processed THEN acc
            ELSE IF ~HasCluster(item) THEN
              IF nodeId \in targets THEN
                [acc EXCEPT
                   !.processed = @ \cup {nodeId},
                   !.groups =
                      IF nodeId \in DOMAIN g
                      THEN [g EXCEPT ![nodeId].header = Entry(resIndex, item)]
                      ELSE g @@ (nodeId :> [header |-> Entry(resIndex, item),
                                            members |-> << >>])]
              ELSE
                [acc EXCEPT
                   !.processed = @ \cup {nodeId},
                   !.standalone = Append(@, Entry(resIndex, item))]
            ELSE
              LET key == StringOf(clusterOf(item))
                  g2 == IF key \in DOMAIN g THEN g
                        ELSE g @@ (key :> [header |-> NoHeader,
                                           members |-> << >>])
              IN  [acc EXCEPT
                     !.processed = @ \cup {nodeId},
                     !.groups = [g2 EXCEPT ![key].members =
                                     Append(@, Entry(resIndex, item))]]
      IN  Bind(next, LAMBDA a : groupResults(results, targets, k + 1, a))

\* geometry && coordinates && (type === 'Point' ? not the origin : true)
UsableGeometry(i) ==
    LET geo == allFeatures[i].geometry
    IN  /\ geo # Undef
        /\ geo.type = "Point" =>
              (geo.coordinates[1] # 0 \/ geo.coordinates[2] # 0)

\* allFeatures.find(...): the first index that satisfies, 0 for undefined
FirstItem(S) == IF S = {} THEN 0 ELSE CHOOSE i \in S : \A j \in S : i <= j

\* a header lookup that takes the first record with the identifier
resolveHeaderFirst(key, group) ==
    IF group.header.item # 0 THEN group
    ELSE
      LET anyOne == FirstItem({ i \in Items : IdStr(i) = key })
      IN  IF anyOne # 0 THEN [group EXCEPT !.header = Entry(-1, anyOne)]
          ELSE group

\* Lines 1519-1541: a header that did not match is taken from the corpus.
resolveHeader(key, group) ==
    IF group.header.item # 0 THEN group
    ELSE
      LET withGeo == FirstItem({ i \in Items : IdStr(i) = key /\ UsableGeometry(i) })
          anyOne == FirstItem({ i \in Items : IdStr(i) = key })
          found == IF withGeo # 0 THEN withGeo ELSE anyOne
      IN  IF found # 0 THEN [group EXCEPT !.header = Entry(-1, found)]
          ELSE group

\* Lines 1544-1566: members of the cluster that did not match are pulled in.
RECURSIVE pullMembers(_, _, _, _)
pullMembers(key, i, existing, members) ==
    IF i > Len(allFeatures) THEN members
    ELSE IF HasCluster(i) /\ StringOf(clusterOf(i)) = key
            /\ IdStr(i) \notin existing
         THEN Bind(<<existing \cup {IdStr(i)}, Append(members, Entry(-1, i))>>,
                   LAMBDA a : pullMembers(key, i + 1, a[1], a[2]))
         ELSE pullMembers(key, i + 1, existing, members)

\* the ids a group already holds: its header and its members
existingIds(g) ==
    (IF g.header.item # 0 THEN {IdStr(g.header.item)} ELSE {})
    \cup { IdStr(g.members[m].item) :
             m \in { j \in DOMAIN g.members :
                       props(g.members[j].item)["id"] # Undef } }

completeGroup(key, group) ==
    Bind(resolveHeader(key, group), LAMBDA g :
        Bind(<<existingIds(g), g.members>>, LAMBDA a :
            [g EXCEPT !.members = pullMembers(key, 1, a[1], a[2])]))

clusterGroups(results) ==
    Bind(clusterTargets(results), LAMBDA targets :
        Bind(groupResults(results, targets, 1,
                 [processed |-> {}, groups |-> << >>, standalone |-> << >>]),
             LAMBDA first :
                 [groups |-> [key \in DOMAIN first.groups |->
                                 completeGroup(key, first.groups[key])],
                  standalone |-> first.standalone]))

\* a render that never finds the cap reached
capNeverReached(acc) == FALSE

\* st.selectableIndices.length >= maxSuggestions
capReached(acc) == Len(acc.sel) >= maxSuggestions

\* a member row that stores the index of a synthetic result without
\* appending that result
createMemberRowNoAppend(acc, e) ==
    IF capReached(acc) THEN acc
    ELSE
      LET selectableIndex == IF e.resIndex = -1 THEN Len(acc.results)
                             ELSE e.resIndex
      IN  [acc EXCEPT
             !.rows = Append(@, [kind |-> "member",
                                 index |-> selectableIndex,
                                 item |-> e.item]),
             !.sel = Append(@, selectableIndex)]

\* createMemberRow (lines 1569-1625); acc is [rows, sel, results, rendered].
createMemberRow(acc, e) ==
    IF capReached(acc) THEN acc
    ELSE
      LET selectableIndex == IF e.resIndex = -1 THEN Len(acc.results)
                             ELSE e.resIndex
      IN  [acc EXCEPT
             !.results = IF e.resIndex = -1
                         THEN Append(@, Hit(e.item, SyntheticScore))
                         ELSE @,
             !.rows = Append(@, [kind |-> "member",
                                 index |-> selectableIndex,
                                 item |-> e.item]),
             !.sel = Append(@, selectableIndex)]

\* createStandaloneRow (lines 1628-1656)
createStandaloneRow(acc, e) ==
    IF capReached(acc) THEN acc
    ELSE [acc EXCEPT
            !.rows = Append(@, [kind |-> "standalone",
                                index |-> e.resIndex,
                                item |-> e.item]),
            !.sel = Append(@, e.resIndex)]

\* group.members.forEach(...) of lines 1704-1710
RECURSIVE renderMembers(_, _, _)
renderMembers(acc, members, m) ==
    IF m > Len(members) THEN acc
    ELSE Bind(createMemberRow(acc, members[m]),
              LAMBDA a : renderMembers(a, members, m + 1))

\* String(headerProps.name || headerProps.id || 'Unknown')
headerNameOf(group) ==
    IF group.header.item = 0 THEN "Unknown"
    ELSE StringOf(OrElse(props(group.header.item)["name"],
                  OrElse(props(group.header.item)["id"], Str("Unknown"))))

\* One cluster: its divider, the header's own row if it matched, its members.
renderCluster(acc, group) ==
    LET withDivider == [acc EXCEPT !.rows =
                           Append(@, [kind |-> "header",
                                      name |-> headerNameOf(group),
                                      item |-> group.header.item])]
        withHeader == IF group.header.item # 0 /\ group.header.resIndex >= 0
                      THEN createMemberRow(withDivider, group.header)
                      ELSE withDivider
    IN  Bind(withHeader, LAMBDA a : renderMembers(a, group.members, 1))

\* results.forEach(...) of lines 1661-1712, over the matches only
RECURSIVE renderClusters(_, _, _, _)
renderClusters(acc, results, groups, k) ==
    IF k > Len(results) THEN acc
    ELSE IF capReached(acc)
         THEN renderClusters(acc, results, groups, k + 1)
    ELSE
      LET item == results[k].item
          nodeId == IdStr(item)
          clusterKey == IF ~HasCluster(item)
                        THEN (IF nodeId \in DOMAIN groups THEN nodeId ELSE "")
                        ELSE StringOf(clusterOf(item))
          next ==
            IF clusterKey # "" /\ clusterKey \notin acc.rendered
            THEN LET marked == [acc EXCEPT !.rendered = @ \cup {clusterKey}]
                 IN  IF clusterKey \in DOMAIN groups
                     THEN renderCluster(marked, groups[clusterKey])
                     ELSE marked
            ELSE acc
      IN  Bind(next, LAMBDA a : renderClusters(a, results, groups, k + 1))

\* standalone.forEach(...) of lines 1715-1721
RECURSIVE renderStandalone(_, _, _)
renderStandalone(acc, standalone, k) ==
    IF k > Len(standalone) THEN acc
    ELSE IF capReached(acc)
         THEN renderStandalone(acc, standalone, k + 1)
    ELSE Bind(createStandaloneRow(acc, standalone[k]),
              LAMBDA a : renderStandalone(a, standalone, k + 1))

\* The whole of renderSuggestionsForRole on st.lastResults = results:
\* the rows, selectableIndices, the grown lastResults and activeIndex.
renderSuggestionsForRole(results) ==
    IF results = << >>
    THEN [rows |-> << >>, sel |-> << >>, results |-> << >>, activeIndex |-> -1]
    ELSE
      Bind(clusterGroups(results), LAMBDA cg :
        Bind([rows |-> << >>, sel |-> << >>, results |-> results,
              rendered |-> {}], LAMBDA start :
          Bind(renderClusters(start, results, cg.groups, 1), LAMBDA clustered :
            Bind(renderStandalone(clustered, cg.standalone, 1), LAMBDA done :
              [rows |-> done.rows, sel |-> done.sel, results |-> done.results,
               activeIndex |-> IF done.sel # << >> THEN 0 ELSE -1]))))

\* searchForRole on a non-empty query whose matcher answer is raw
searchResults(raw) ==
    Bind(sortHits(raw), LAMBDA sorted : renderSuggestionsForRole(sorted))

(***************************************************************************)
(* The itinerary: updateSidebarForRoute and the node lookups it uses.      *)
(* A route payload is a sequence of segment property bags                  *)
(*   [source, src, target, tgt, line, name, mode, cost].                   *)
(***************************************************************************)
Segment(source, target, line, mode, cost) ==
    [source |-> source, src |-> Undef, target |-> target, tgt |-> Undef,
     line |-> line, name |-> Undef, mode |-> mode, cost |-> cost]

\* helpers.js modeIntToName[n] ?? ''
modeIntToName(n) ==
    IF n.t # "number" THEN ""
    ELSE CASE n.v = 1 -> "road"
           [] n.v = 2 -> "chaussee"
           [] n.v = 3 -> "ferry"
           [] n.v = 4 -> "metro"
           [] n.v = 5 -> "horse tramway"
           [] n.v = 6 -> "ship"
           [] n.v = 7 -> "electric tramway"
           [] n.v = 8 -> "railway"
           [] n.v = 9 -> "transfer"
           [] n.v = 10 -> "switch"
           [] n.v = 11 -> "connection"
           [] n.v = 12 -> "steam tramway"
           [] n.v = 13 -> "narrow-gauge railway"
           [] OTHER -> ""

\* helpers.js rankLabelMap, '' when the rank has no label
rankLabel(n) ==
    IF n.t # "number" THEN ""
    ELSE CASE n.v = 9 -> "vilayet merkezi"
           [] n.v = 8 -> "sancak merkezi"
           [] n.v = 7 -> "kaza merkezi"
           [] n.v = 6 -> "nahiye merkezi"
           [] n.v = 5 -> "koy"
           [] n.v = 4 -> "station"
           [] n.v = 3 -> "dock"
           [] n.v = 2 -> "stop"
           [] OTHER -> ""

\* getNodeById: 0 stands for null
getNodeById(nodeId) ==
    IF ~Truthy(nodeId) THEN 0
    ELSE FirstItem({ i \in Items : IdStr(i) = StringOf(nodeId) })

\* name || id || String(nodeId) of a Location
nameOrId(i, nodeId) ==
    StringOf(OrElse(props(i)["name"],
             OrElse(props(i)["id"], Str(StringOf(nodeId)))))

getNodeName(nodeId) ==
    IF getNodeById(nodeId) # 0 THEN nameOrId(getNodeById(nodeId), nodeId)
    ELSE StringOf(nodeId)

\* a lookup that finds no rank for any node
noNodeRank(nodeId) == Null

\* getNodeRank: Null when the node or its rank is missing
getNodeRank(nodeId) ==
    IF getNodeById(nodeId) # 0 /\ props(getNodeById(nodeId))["rank"] # Undef
    THEN NumberOf(props(getNodeById(nodeId))["rank"])
    ELSE Null

\* a name lookup that takes the first record with the identifier
firstNodeName(sel, nodeId) == getNodeName(nodeId)

getPreferredNodeName(sel, nodeId) ==
    IF ~Truthy(nodeId) THEN StringOf(nodeId)
    ELSE IF sel["source"] # 0 /\ IdStr(sel["source"]) = StringOf(nodeId)
         THEN nameOrId(sel["source"], nodeId)
    ELSE IF sel["target"] # 0 /\ IdStr(sel["target"]) = StringOf(nodeId)
         THEN nameOrId(sel["target"], nodeId)
    ELSE LET withGeo == FirstItem({ i \in Items :
                           IdStr(i) = StringOf(nodeId) /\ UsableGeometry(i) })
         IN  IF withGeo # 0 THEN nameOrId(withGeo, nodeId)
             ELSE getNodeName(nodeId)

\* const segs = routeGeo.features.map(...) of lines 1911-1925
segOf(sel, p, i) ==
    LET sourceId == Coalesce(p.source, Coalesce(p.src, Str("")))
        targetId == Coalesce(p.target, Coalesce(p.tgt, Str("")))
    IN  [idx |-> i - 1,
         sourceId |-> sourceId,
         targetId |-> targetId,
         source |-> getPreferredNodeName(sel, sourceId),
         target |-> getPreferredNodeName(sel, targetId),
         line |-> Coalesce(p.line, Coalesce(p.name, Str(""))),
         modeInt |-> NumberOf(p.mode),
         mode |-> modeIntToName(NumberOf(p.mode)),
         cost |-> Coalesce(p.cost, Num(0))]

\* a node row as flowRowsHtml shows it (lines 2035-2049), with its node
\* card: aria-expanded="false", data-lines-loaded="false" and the placeholder
\* of its lines container (lines 2086, 2095)
nodeRow(label, nodeId) ==
    [type |-> "node",
     label |-> label,
     nodeId |-> nodeId,
     rankText |-> IF getNodeRank(nodeId) # Null
                  THEN rankLabel(getNodeRank(nodeId)) ELSE "",
     expanded |-> FALSE,
     linesLoaded |-> FALSE,
     lines |-> "Loading lines..."]

\* Number(mins) || 0, the minutes formatCostMinutes is given
costMinutes(c) == IF NumberOf(c) = NaN THEN 0 ELSE NumberOf(c).v

segmentRow(seg) ==
    [type |-> "segment",
     idx |-> seg.idx,
     line |-> StringOf(seg.line),
     mode |-> seg.mode,
     cost |-> costMinutes(seg.cost)]

\* String.prototype.toLowerCase on the line names and the node names of
\* the model
ToLower(s) ==
    CASE s = "Switch" -> "switch"
      [] s = "L1" -> "l1"
      [] s = "Galata" -> "galata"
      [] s = " Galata" -> " galata"
      [] s = "Pera" -> "pera"
      [] OTHER -> s

\* isSwitchSeg (lines 1959-1961); it marks the entries of steps, which
\* nothing reads, and has no part in the rows
isSwitchSeg(seg) ==
    /\ ToLower(StringOf(OrElse(seg.line, Str("")))) = "switch"
    /\ StringOf(OrElse(seg.sourceId, Str(""))) =
           StringOf(OrElse(seg.targetId, Str("")))

\* a row loop that leaves no segment out
neverCollapsed(seg) == FALSE

\* the test of lines 2010-2013 that leaves a segment out of the rows
isCollapsed(seg) ==
    /\ (seg.modeInt = Num(10) \/ seg.mode = "switch")
    /\ seg.sourceId = seg.targetId

\* the loop of lines 1995-2032
RECURSIVE itineraryRows(_, _, _)
itineraryRows(segs, i, acc) ==
    IF i > Len(segs) THEN acc
    ELSE
      LET seg == segs[i]
          first == IF i = 1
                   THEN Append(acc, nodeRow(seg.source, seg.sourceId))
                   ELSE acc
          next == IF ~isCollapsed(seg)
                  THEN first \o << segmentRow(seg),
                                   nodeRow(seg.target, seg.targetId) >>
                  ELSE first
      IN  Bind(next, LAMBDA a : itineraryRows(segs, i + 1, a))

\* The rows updateSidebarForRoute leaves in the sidebar; << >> when it
\* empties it (routeGeo null or without features).
updateSidebarForRoute(sel, features) ==
    IF features = << >> THEN << >>
    ELSE Bind([i \in 1..Len(features) |-> segOf(sel, features[i], i)],
              LAMBDA segs : itineraryRows(segs, 1, << >>))

(***************************************************************************)
(* The control.                                                            *)
(***************************************************************************)
MaxRequests == 2

\* const clickTolerance = 0.006, in units of 0.0005 degree
ClickTolerance == 12

\* where the user clicks the map: next to record 2; far from every record;
\* between records 3 and 2, nearer to record 3; and at exactly the tolerance
\* from record 3
ClickPoints == { <<20, 36>>, <<40, 80>>, <<20, 29>>, <<20, 8>> }

Feature(i) == [t |-> "feature", item |-> i]

\* what the host passes to setSource / setTarget
ApiArgs == { Null, Str("A"), Str("Z") }

\* the answers of the route endpoint to a request: no segments, or one
RouteAnswers(r) ==
    { << >>,
      << Segment(Str(r.source), Str(r.target), Str("L1"), Num(8), Num(5)) >> }

EmptyLists == [r \in Roles |-> << >>]

\* settings: { year: 1914, ... } (line 1055)
DefaultYear == 1914

\* the positions of the year slider in the model
Years == { 1914, 1900 }

\* the keys of nodeLinesCache: String(nodeId) of the nodes of the routes
NodeKeys == { "A", "B" }

\* a payload { names, lines } by the year its request named; the catch of
\* fetchNodeLines makes an empty one (lines 1082-1087)
Payload(kind, y) == [kind |-> kind, year |-> y]

NoPayload == Payload("absent", 0)

\* new Map() (line 1059), as nodeLinesCache.clear() leaves it
EmptyCache == [id \in NodeKeys |-> NoPayload]

InitControl ==
    /\ selected = [r \in Roles |-> 0]
    /\ input = [r \in Roles |-> ""]
    /\ lastResults = EmptyLists
    /\ rows = EmptyLists
    /\ selectableIndices = EmptyLists
    /\ activeIndex = [r \in Roles |-> -1]
    /\ debounce = [r \in Roles |-> 0]
    /\ activeRole = "none"
    /\ focusTimers = {"source"}
    /\ inflight = {}
    /\ reqCount = 0
    /\ routeMap = << >>
    /\ sidebar = << >>
    /\ lastResponse = [n |-> 0, outcome |-> "none"]
    /\ mapCursor = ""
    /\ sinceSelect = [r \in Roles |-> FALSE]
    /\ returned = [held |-> FALSE, alias |-> FALSE,
                   obj |-> [r \in Roles |-> 0]]
    /\ escaped = FALSE
    /\ superseded = [r \in Roles |-> FALSE]
    /\ year = DefaultYear
    /\ nodeLinesCache = EmptyCache
    /\ nodeFetches = {}
    /\ nodeReqCount = 0

\* no call of fitBoundsForGeoJSON yet
NoFit == [done |-> FALSE]

InitFitIdle ==
    /\ fitIn = NoFit
    /\ fitOut = NoFit
    /\ altIn = NoFit
    /\ altOut = NoFit
    /\ colIn = NoFit
    /\ colOut = NoFit

InitPure ==
    /\ rawIn = << >>
    /\ normOut = << >>
    /\ fuseOut = << >>
    /\ routeIn = << >>
    /\ InitFitIdle

Init == InitControl /\ InitPure

pureVars == <<rawIn, normOut, fuseOut, routeIn, fitIn, fitOut, altIn, altOut,
              colIn, colOut>>

listVars == <<lastResults, rows, selectableIndices, activeIndex>>

routeVars == <<inflight, reqCount, routeMap, sidebar, lastResponse>>

hostVars == <<returned, escaped, superseded>>

nodeVars == <<year, nodeLinesCache, nodeFetches, nodeReqCount>>

\* mapCanvas.style.cursor = activeRole ? 'crosshair' : ''
updateMapCursor(role) == IF role # "none" THEN "crosshair" ELSE ""

\* inp.value as setSelectedFeature leaves it
inputValueOf(feat) ==
    IF feat = 0 THEN ""
    ELSE StringOf(OrElse(props(feat)["name"],
                  OrElse(props(feat)["id"], Str(""))))

\* an assignment that, given null, empties both slots
setSelectedFeatureOrReset(role, feat) ==
    /\ selected' = IF feat = 0 THEN [r \in Roles |-> 0]
                   ELSE [selected EXCEPT ![role] = feat]
    /\ input' = [input EXCEPT ![role] = inputValueOf(feat)]

setSelectedFeature(role, feat) ==
    /\ selected' = [selected EXCEPT ![role] = feat]
    /\ input' = [input EXCEPT ![role] = inputValueOf(feat)]

\* fetchAndRenderRouteIfReady up to its fetch, on the slots sel
fetchAndRenderRouteIfReady(sel) ==
    IF sel["source"] = 0 \/ sel["target"] = 0
    THEN /\ routeMap' = << >>
         /\ sidebar' = << >>
         /\ UNCHANGED <<inflight, reqCount, lastResponse>>
    ELSE IF ~Truthy(props(sel["source"])["id"])
            \/ ~Truthy(props(sel["target"])["id"])
    THEN UNCHANGED routeVars
    ELSE /\ reqCount < MaxRequests
         /\ reqCount' = reqCount + 1
         /\ inflight' = inflight \cup
                {[source |-> IdStr(sel["source"]),
                  target |-> IdStr(sel["target"]),
                  n |-> reqCount + 1]}
         /\ UNCHANGED <<routeMap, sidebar, lastResponse>>

\* a handler that shows an answer only while the slots still hold its pair
RouteResponseOkIfCurrent(r, features) ==
    /\ r \in inflight
    /\ inflight' = inflight \ {r}
    /\ IF /\ selected["source"] # 0 /\ selected["target"] # 0
          /\ IdStr(selected["source"]) = r.source
          /\ IdStr(selected["target"]) = r.target
       THEN /\ routeMap' = features
            /\ sidebar' = updateSidebarForRoute(selected, features)
       ELSE UNCHANGED <<routeMap, sidebar>>
    /\ lastResponse' = [n |-> r.n, outcome |-> "ok"]
    /\ UNCHANGED <<selected, input, listVars, debounce, activeRole,
                   focusTimers, reqCount, mapCursor, sinceSelect, pureVars, hostVars, nodeVars>>

\* The fetch resolved with a features list: lines 2430-2677.
RouteResponseOk(r, features) ==
    /\ r \in inflight
    /\ inflight' = inflight \ {r}
    /\ routeMap' = features
    /\ sidebar' = updateSidebarForRoute(selected, features)
    /\ lastResponse' = [n |-> r.n, outcome |-> "ok"]
    /\ UNCHANGED <<selected, input, listVars, debounce, activeRole,
                   focusTimers, reqCount, mapCursor, sinceSelect, pureVars, hostVars, nodeVars>>

\* a failure handler that also empties the slots
RouteResponseFailResets(r) ==
    /\ r \in inflight
    /\ inflight' = inflight \ {r}
    /\ sidebar' = << >>
    /\ selected' = [role \in Roles |-> 0]
    /\ lastResponse' = [n |-> r.n, outcome |-> "failed"]
    /\ UNCHANGED <<input, listVars, debounce, activeRole,
                   focusTimers, reqCount, routeMap, mapCursor, sinceSelect,
                   pureVars, hostVars, nodeVars>>

\* The fetch failed, or its payload has no features list: lines 2679-2682.
RouteResponseFail(r) ==
    /\ r \in inflight
    /\ inflight' = inflight \ {r}
    /\ sidebar' = << >>
    /\ lastResponse' = [n |-> r.n, outcome |-> "failed"]
    /\ UNCHANGED <<selected, input, listVars, debounce, activeRole,
                   focusTimers, reqCount, routeMap, mapCursor, sinceSelect,
                   pureVars, hostVars, nodeVars>>

\* a setTimeout with no clearTimeout before it
addTimer(pending) == pending + 1

\* if (st.debounce) clearTimeout(st.debounce); st.debounce = setTimeout(...):
\* st.debounce names the timer set last, which is pending whenever one is
restartTimer(pending) == (IF pending > 0 THEN pending - 1 ELSE 0) + 1

\* input event: the debounce timer is restarted (lines 2739-2746)
InputEvent(role, q) ==
    /\ input' = [input EXCEPT ![role] = q]
    /\ debounce' = [debounce EXCEPT ![role] = restartTimer(@)]
    /\ superseded' = [superseded EXCEPT ![role] = debounce[role] > 0]
    /\ sinceSelect' = [sinceSelect EXCEPT ![role] = FALSE]
    /\ UNCHANGED <<selected, listVars, activeRole, focusTimers, routeVars,
                   mapCursor, pureVars, returned, escaped, nodeVars>>

\* the second half of searchForRole: the matcher answered raw
showMatches(role, raw) ==
    \E out \in { searchResults(raw) } :
        /\ rows' = [rows EXCEPT ![role] = out.rows]
        /\ lastResults' = [lastResults EXCEPT ![role] = out.results]
        /\ activeIndex' = [activeIndex EXCEPT ![role] = out.activeIndex]
        /\ selectableIndices' = [selectableIndices EXCEPT ![role] = out.sel]

\* searchForRole(role, q) on the lists of the role
searchForRole(role, q) ==
    IF q = ""
    THEN /\ rows' = [rows EXCEPT ![role] = << >>]
         /\ lastResults' = [lastResults EXCEPT ![role] = << >>]
         /\ activeIndex' = [activeIndex EXCEPT ![role] = -1]
         /\ UNCHANGED selectableIndices
    ELSE showMatches(role, fuse_search(q))

\* the debounce timer of the role fires
DebounceFire(role) ==
    /\ debounce[role] > 0
    /\ debounce' = [debounce EXCEPT ![role] = @ - 1]
    /\ superseded' = [superseded EXCEPT ![role] = FALSE]
    /\ searchForRole(role, input[role])
    /\ UNCHANGED <<selected, input, activeRole, focusTimers, routeVars,
                   mapCursor, sinceSelect, pureVars, returned, escaped,
                   nodeVars>>

\* st.lastResults[index] is undefined: selectForRole returns at once
noResultAt(role, index) ==
    index < 0 \/ index >= Len(lastResults[role])

\* a selectForRole that leaves the focus where it is
focusNobodyLater(role, sel) == focusTimers

\* the focus timer for the other role while its slot is empty
\* (lines 2696-2700)
focusOtherLater(role, sel) ==
    IF sel[Other(role)] = 0
    THEN focusTimers \cup {Other(role)}
    ELSE focusTimers

\* what selectForRole does outside the role's list: the slot, the focus
\* timer for the other role and the route (lines 2689, 2696-2703)
selectSlotForRole(role, index) ==
    LET feat == lastResults[role][index + 1].item
        sel == [selected EXCEPT ![role] = feat]
    IN  /\ setSelectedFeature(role, feat)
        /\ focusTimers' = focusOtherLater(role, sel)
        /\ fetchAndRenderRouteIfReady(sel)
        /\ sinceSelect' = [sinceSelect EXCEPT ![role] = TRUE]

\* selectForRole(role, index), index counted from 0 (lines 2685-2704)
selectForRole(role, index) ==
    IF noResultAt(role, index)
    THEN UNCHANGED <<selected, input, listVars, focusTimers, routeVars,
                     sinceSelect>>
    ELSE /\ selectSlotForRole(role, index)
         /\ rows' = [rows EXCEPT ![role] = << >>]
         /\ lastResults' = [lastResults EXCEPT ![role] = << >>]
         /\ activeIndex' = [activeIndex EXCEPT ![role] = -1]
         /\ UNCHANGED selectableIndices

\* suggestionsEl.querySelectorAll('.suggestion'): the selectable rows
selectableRows(role) ==
    SelectSeq(rows[role], LAMBDA row : row.kind # "header")

\* what the document click handler does for a click outside the container
\* (lines 2799-2813)
documentClick ==
    /\ rows' = EmptyLists
    /\ lastResults' = EmptyLists
    /\ activeIndex' = [r \in Roles |-> -1]
    /\ activeRole' = "none"
    /\ UNCHANGED selectableIndices

\* Click on the k-th child of the role's suggestion list, a selectable row:
\* the row's click handler (lines 1621, 1652) calls selectForRole, which
\* empties the list and so detaches the clicked row; the click then reaches
\* the document click handler, for which a detached target is not inside
\* the container.
RowClick(role, k) ==
    /\ k \in DOMAIN rows[role]
    /\ rows[role][k].kind # "header"
    /\ IF noResultAt(role, rows[role][k].index)
       THEN UNCHANGED <<selected, input, listVars, focusTimers, routeVars,
                        sinceSelect, activeRole>>
       ELSE /\ selectSlotForRole(role, rows[role][k].index)
            /\ documentClick
    /\ UNCHANGED <<debounce, mapCursor, pureVars, hostVars, nodeVars>>

\* the index the Enter key hands to selectForRole, -1 when it selects nothing
enterIndex(role) ==
    IF activeIndex[role] >= 0 /\ activeIndex[role] < Len(rows[role])
    THEN IF activeIndex[role] < Len(selectableRows(role))
         THEN selectableRows(role)[activeIndex[role] + 1].index
         ELSE -1
    ELSE IF lastResults[role] # << >> THEN 0 ELSE -1

\* keydown Enter in the role's input (lines 2750-2774)
EnterKey(role) ==
    /\ selectForRole(role, enterIndex(role))
    /\ IF selected'["source"] # 0 /\ selected'["target"] # 0
       THEN activeRole' = "none" /\ mapCursor' = updateMapCursor("none")
       ELSE UNCHANGED <<activeRole, mapCursor>>
    /\ UNCHANGED <<debounce, pureVars, hostVars, nodeVars>>

\* an arrow handler that wraps one position late at the end of the list
arrowIndexPastEnd(ai, n, key) ==
    LET moved == IF ai = -1 THEN 0
                 ELSE ai + (IF key = "ArrowDown" THEN 1 ELSE -1)
        low   == IF moved < 0 THEN n - 1 ELSE moved
    IN  IF low > n THEN 0 ELSE low

\* the cursor after an arrow key, n the number of '.suggestion' items
\* (lines 2779-2782)
arrowIndex(ai, n, key) ==
    LET moved == IF ai = -1 THEN 0
                 ELSE ai + (IF key = "ArrowDown" THEN 1 ELSE -1)
        low   == IF moved < 0 THEN n - 1 ELSE moved
    IN  IF low >= n THEN 0 ELSE low

ArrowKeys == { "ArrowDown", "ArrowUp" }

\* keydown ArrowDown / ArrowUp in the role's input (lines 2775-2795)
ArrowKey(role, key) ==
    /\ Len(selectableRows(role)) > 0
    /\ activeIndex' = [activeIndex EXCEPT ![role] =
                          arrowIndex(activeIndex[role],
                                     Len(selectableRows(role)), key)]
    /\ UNCHANGED <<selected, input, lastResults, rows, selectableIndices,
                   debounce, activeRole, focusTimers, routeVars, mapCursor,
                   sinceSelect, pureVars, hostVars, nodeVars>>

\* keydown Escape in the role's input: the handler has a branch for Enter and
\* one for the arrow keys and none for any other key (lines 2748-2796)
EscapeKey(role) ==
    /\ escaped' = TRUE
    /\ UNCHANGED <<selected, input, listVars, debounce, activeRole,
                   focusTimers, routeVars, mapCursor, sinceSelect, pureVars,
                   returned, superseded, nodeVars>>

\* click on the role's clear button (lines 993-1021); the button shows
\* while the input has text or the slot is filled
ClearClick(role) ==
    /\ input[role] # "" \/ selected[role] # 0
    /\ setSelectedFeature(role, 0)
    /\ lastResults' = [lastResults EXCEPT ![role] = << >>]
    /\ rows' = [rows EXCEPT ![role] = << >>]
    /\ fetchAndRenderRouteIfReady([selected EXCEPT ![role] = 0])
    /\ focusTimers' = focusTimers \cup {role}
    /\ UNCHANGED <<selectableIndices, activeIndex, debounce, activeRole,
                   mapCursor, sinceSelect, pureVars, hostVars, nodeVars>>

\* x.properties.id == idOrFeature for a string or a number
LooseEq(a, b) ==
    IF IsNullish(a) THEN FALSE
    ELSE IF a.t = b.t THEN a = b
    ELSE NumberOf(a) # NaN /\ NumberOf(a) = NumberOf(b)

\* setSource / setTarget of the returned API (lines 2907-2920)
SetRole(role, arg) ==
    /\ IF arg.t = "feature" THEN setSelectedFeature(role, arg.item)
       ELSE IF ~Truthy(arg) THEN setSelectedFeature(role, 0)
       ELSE LET f == FirstItem({ i \in Items : LooseEq(props(i)["id"], arg) })
            IN  IF f # 0 THEN setSelectedFeature(role, f)
                ELSE UNCHANGED <<selected, input>>
    /\ UNCHANGED <<listVars, debounce, activeRole, focusTimers, routeVars,
                   mapCursor, sinceSelect, pureVars, hostVars, nodeVars>>

\* a getter that hands out the control's own Selection object
getSelectedItself ==
    [held |-> TRUE, alias |-> TRUE, obj |-> selected]

\* getSelected() { return { ...selected }; }: a new object with the two
\* fields of selected (line 2921)
getSelected ==
    [held |-> TRUE, alias |-> FALSE, obj |-> selected]

\* the fields of the object the host holds, as the host reads them
returnedFields ==
    IF returned.alias THEN selected ELSE returned.obj

\* the host calls getSelected() and keeps the result
GetSelected ==
    /\ returned' = getSelected
    /\ UNCHANGED <<selected, input, listVars, debounce, activeRole,
                   focusTimers, routeVars, mapCursor, sinceSelect, pureVars,
                   escaped, superseded, nodeVars>>

\* the host assigns v to the field of the object it holds: the write goes
\* to the object the reference names
HostAssign(role, v) ==
    /\ returned.held
    /\ IF returned.alias
       THEN /\ selected' = [selected EXCEPT ![role] = v]
            /\ UNCHANGED returned
       ELSE /\ returned' = [returned EXCEPT !.obj[role] = v]
            /\ UNCHANGED selected
    /\ UNCHANGED <<input, listVars, debounce, activeRole, focusTimers,
                   routeVars, mapCursor, sinceSelect, pureVars, escaped,
                   superseded, nodeVars>>

\* focus event of the role's input (lines 2712-2718)
FocusInput(role) ==
    /\ activeRole' = role
    /\ mapCursor' = updateMapCursor(role)
    /\ UNCHANGED <<selected, input, listVars, debounce, focusTimers,
                   routeVars, sinceSelect, pureVars, hostVars, nodeVars>>

\* a setTimeout(() => input.focus(), 0) comes due
FocusTimerFire(role) ==
    /\ role \in focusTimers
    /\ focusTimers' = focusTimers \ {role}
    /\ activeRole' = role
    /\ mapCursor' = updateMapCursor(role)
    /\ UNCHANGED <<selected, input, listVars, debounce, routeVars,
                   sinceSelect, pureVars, hostVars, nodeVars>>

\* a click outside the control and outside the map
DocumentClick ==
    /\ documentClick
    /\ UNCHANGED <<selected, input, debounce, focusTimers, routeVars,
                   mapCursor, sinceSelect, pureVars, hostVars, nodeVars>>

\* squared distance, in units of 0.0005 degree
dist2(i, pt) ==
    LET c == allFeatures[i].geometry.coordinates
    IN  (c[1] - pt[1]) * (c[1] - pt[1]) + (c[2] - pt[2]) * (c[2] - pt[2])

\* the first point Location within the tolerance, however far the others are
firstFeatureWithin(pt) ==
    FirstItem({ i \in Items :
                  /\ allFeatures[i].geometry # Undef
                  /\ allFeatures[i].geometry.type = "Point"
                  /\ dist2(i, pt) < ClickTolerance * ClickTolerance })

\* the nearest point Location within the tolerance, 0 when there is none
nearestFeature(pt) ==
    LET near == { i \in Items :
                    /\ allFeatures[i].geometry # Undef
                    /\ allFeatures[i].geometry.type = "Point"
                    /\ dist2(i, pt) < ClickTolerance * ClickTolerance }
    IN  FirstItem({ i \in near : \A j \in near : dist2(i, pt) <= dist2(j, pt) })

\* a map click handler without the test for the other slot
neverSameNode(role, hit) == FALSE

\* selected[otherRole] && String(selected[otherRole].properties.id) ===
\* String(nodeId) (line 2857)
sameNodeAsOther(role, hit) ==
    /\ selected[Other(role)] # 0
    /\ IdStr(selected[Other(role)]) = IdStr(hit)

\* a map click handler that returns on a rejected click without a timer
noRefocus(role) == focusTimers

\* setTimeout(() => { currentInput.focus(); updateMapCursor(); }, 0) of a
\* rejected map click (lines 2845-2849, 2859-2863)
refocusLater(role) == focusTimers \cup {role}

\* A click on the map at pt: the map's click handler (lines 2815-2894), then
\* the document click handler, which the same click reaches because the map
\* canvas is outside the control's container.
MapClick(pt) ==
    LET role == activeRole
        hit == nearestFeature(pt)
        sel == [selected EXCEPT ![role] = hit]
    IN  /\ documentClick
        /\ IF role = "none"
           THEN UNCHANGED <<selected, input, focusTimers, routeVars, mapCursor>>
           ELSE IF hit = 0 \/ sameNodeAsOther(role, hit)
           THEN /\ focusTimers' = refocusLater(role)
                /\ UNCHANGED <<selected, input, routeVars, mapCursor>>
           ELSE /\ setSelectedFeature(role, hit)
                /\ IF sel[Other(role)] = 0
                   THEN /\ focusTimers' = focusTimers \cup {Other(role)}
                        /\ UNCHANGED mapCursor
                   ELSE /\ mapCursor' = updateMapCursor("none")
                        /\ UNCHANGED focusTimers
                /\ fetchAndRenderRouteIfReady(sel)
        /\ UNCHANGED <<debounce, sinceSelect, pureVars, hostVars, nodeVars>>

(***************************************************************************)
(* Spec: the control driven by map clicks, the clear buttons, the Enter    *)
(* key, the programmatic API and the route endpoint; nobody types, so the  *)
(* suggestion lists stay empty.  SpecSuggest below is the control driven   *)
(* by typing and by its suggestion rows.                                   *)
(***************************************************************************)
Next ==
    \/ \E role \in Roles : EnterKey(role)
    \/ \E role \in Roles : ClearClick(role)
    \/ \E role \in Roles, arg \in ApiArgs : SetRole(role, arg)
    \/ \E role \in Roles : FocusInput(role)
    \/ \E role \in Roles : FocusTimerFire(role)
    \/ DocumentClick
    \/ \E pt \in ClickPoints : MapClick(pt)
    \/ \E r \in inflight : \E features \in RouteAnswers(r) :
            RouteResponseOk(r, features)
    \/ \E r \in inflight : RouteResponseFail(r)

Spec == Init /\ [][Next]_vars

\* Spec with its timers: a callback handed to setTimeout(..., 0) is run
SpecLive ==
    Spec /\ \A role \in Roles : WF_vars(FocusTimerFire(role))

NextSuggest ==
    \/ \E role \in Roles, q \in TypedQueries : InputEvent(role, q)
    \/ \E role \in Roles : DebounceFire(role)
    \/ \E role \in Roles, k \in 1..(2 * maxSuggestions) : RowClick(role, k)
    \/ \E role \in Roles : EnterKey(role)
    \/ \E role \in Roles : ClearClick(role)
    \/ DocumentClick
    \/ \E pt \in ClickPoints : MapClick(pt)

SpecSuggest == Init /\ [][NextSuggest]_vars

(***************************************************************************)
(* SpecNorm: normalizeFeatures on every raw corpus of at most MaxRawLen    *)
(* records.  A record has or lacks a top-level id, and its properties.id   *)
(* is absent, null, a number or a string; its rank is absent, a number, a  *)
(* string of digits or another string.                                     *)
(***************************************************************************)
MaxRawLen == 1

RawRecords ==
    { [id |-> top,
       geometry |-> Point(10, 10),
       properties |-> [k \in PropKeys |->
                          CASE k = "id" -> pid
                            [] k = "ID" -> pID
                            [] k = "name" -> name
                            [] k = "rank" -> rank
                            [] OTHER -> Undef]] :
        top \in {Undef, Null, Num(7)},
        pid \in {Undef, Null, Num(5), Str("A")},
        pID \in {Undef, Str("B")},
        name \in {Undef, Str("Galata")},
        rank \in {Undef, Num(4), Str("4"), Str("x")} }

RawInputs == UNION { [1..n -> RawRecords] : n \in 0..MaxRawLen }

InitNorm ==
    /\ InitControl
    /\ InitFitIdle
    /\ rawIn \in RawInputs
    /\ normOut = << >>
    /\ fuseOut = << >>
    /\ routeIn = << >>

\* the corpus has loaded: allFeatures = normalizeFeatures(geojson.features)
Normalize ==
    /\ rawIn # << >>
    /\ normOut = << >>
    /\ normOut' = normalizeFeatures(rawIn)
    /\ UNCHANGED <<selected, input, listVars, debounce, activeRole,
                   focusTimers, routeVars, mapCursor, sinceSelect,
                   rawIn, fuseOut, routeIn, fitIn, fitOut, altIn, altOut,
                   colIn, colOut, hostVars, nodeVars>>

SpecNorm == InitNorm /\ [][Normalize]_vars

(***************************************************************************)
(* SpecSearch: searchForRole on every answer the matcher can give with at  *)
(* most MaxHits matches: each record at most once, ascending by score,     *)
(* records of equal score in corpus order.                                 *)
(***************************************************************************)
MaxHits == 3

MatchScores == {100, 200}

MatcherOutputs ==
    UNION { { raw \in [1..n -> { Hit(i, sc) : i \in Items, sc \in MatchScores }] :
                \A i, j \in 1..n :
                    i < j => \/ raw[i].score < raw[j].score
                             \/ /\ raw[i].score = raw[j].score
                                /\ raw[i].item < raw[j].item } :
            n \in 0..MaxHits }

InitSearch ==
    /\ InitControl
    /\ InitFitIdle
    /\ rawIn = << >>
    /\ normOut = << >>
    /\ fuseOut \in MatcherOutputs
    /\ routeIn = << >>

\* searchForRole on a non-empty query that the matcher answers with fuseOut
SearchAnswer(role) ==
    /\ fuseOut # << >>
    /\ lastResults[role] = << >>
    /\ showMatches(role, fuseOut)
    /\ UNCHANGED <<selected, input, debounce, activeRole, focusTimers,
                   routeVars, mapCursor, sinceSelect, pureVars, hostVars, nodeVars>>

NextSearch ==
    \/ \E role \in Roles : SearchAnswer(role)
    \/ \E role \in Roles, key \in ArrowKeys : ArrowKey(role, key)
    \/ \E role \in Roles : EscapeKey(role)
    \/ DocumentClick

SpecSearch == InitSearch /\ [][NextSearch]_vars

(***************************************************************************)
(* SpecItin: updateSidebarForRoute on every route of at most MaxSegs       *)
(* segments between the nodes "A" and "B", each a railway segment or a     *)
(* switch, named "L1", "switch" or "Switch".                               *)
(***************************************************************************)
MaxSegs == 2

RouteSegments ==
    { Segment(Str(a), Str(b), Str(line), Num(mode), Num(5)) :
        a \in {"A", "B"}, b \in {"A", "B"},
        line \in {"L1", "switch", "Switch"}, mode \in {8, 10} }

RouteInputs == UNION { [1..n -> RouteSegments] : n \in 1..MaxSegs }

InitItin ==
    /\ InitControl
    /\ InitFitIdle
    /\ rawIn = << >>
    /\ normOut = << >>
    /\ fuseOut = << >>
    /\ routeIn \in RouteInputs

\* the route endpoint answers with routeIn and the answer is displayed
RouteArrives ==
    /\ lastResponse.outcome = "none"
    /\ routeMap' = routeIn
    /\ sidebar' = updateSidebarForRoute(selected, routeIn)
    /\ lastResponse' = [n |-> 0, outcome |-> "ok"]
    /\ UNCHANGED <<selected, input, listVars, debounce, activeRole,
                   focusTimers, inflight, reqCount, mapCursor, sinceSelect,
                   pureVars, hostVars, nodeVars>>

SpecItin == InitItin /\ [][RouteArrives]_vars

(***************************************************************************)
(* Properties.                                                             *)
(***************************************************************************)
BothFilled(sel) == sel["source"] # 0 /\ sel["target"] # 0

DisplayEmpty == routeMap = << >> /\ sidebar = << >>

\* C1: the start and the destination slot never hold Locations with the
\* same identifier at the same time.
C1_SlotsHoldDistinctIds ==
    BothFilled(selected) =>
        IdStr(selected["source"]) # IdStr(selected["target"])

\* C2: every step that changes a slot and leaves both slots filled issues
\* one route request, for the pair of identifiers the slots now hold.
C2_FilledPairIsRequested ==
    [][ (selected' # selected /\ BothFilled(selected')) =>
            /\ reqCount' = reqCount + 1
            /\ \E r \in inflight' \ inflight :
                    /\ r.source = IdStr(selected'["source"])
                    /\ r.target = IdStr(selected'["target"]) ]_vars

\* C3: a click on a clear button leaves the route geometry and the
\* itinerary empty, and while a slot is empty no step brings them back.
C3_ClearedDisplayStaysEmpty ==
    [][ /\ (\E role \in Roles : ClearClick(role)) => DisplayEmpty'
        /\ (~BothFilled(selected) /\ DisplayEmpty /\ ~BothFilled(selected'))
               => DisplayEmpty' ]_vars

\* C4: the step that handles a failed route fetch leaves both slots as
\* they were.
C4_FailureKeepsSlots ==
    [][ (lastResponse' # lastResponse /\ lastResponse'.outcome = "failed")
            => selected' = selected ]_vars

\* a fetch has failed while both slots were filled, and they still are
C4_Witness ==
    /\ lastResponse.outcome = "failed"
    /\ BothFilled(selected)

\* C5: once a failed route fetch has been handled, neither a route
\* geometry nor an itinerary is displayed.
C5_FailureClearsDisplay ==
    lastResponse.outcome = "failed" => DisplayEmpty

\* C6: a request leaves the set of requests in flight only when its own
\* response is handled, and a successful response is displayed whatever
\* the slots hold by then: the response handled last decides the display.
C6_LastResponseIsDisplayed ==
    [][ \A r \in inflight :
            r \notin inflight' =>
                /\ lastResponse'.n = r.n
                /\ lastResponse'.outcome = "ok" =>
                       /\ routeMap' \in RouteAnswers(r)
                       /\ sidebar' = updateSidebarForRoute(selected', routeMap')
      ]_vars

\* the response to the older of two requests was handled last: its route
\* is displayed while the slots hold another pair
C6_Witness ==
    /\ reqCount = 2
    /\ inflight = {}
    /\ lastResponse = [n |-> 1, outcome |-> "ok"]
    /\ routeMap # << >>
    /\ BothFilled(selected)
    /\ <<routeMap[1].source, routeMap[1].target>> #
           <<Str(IdStr(selected["source"])), Str(IdStr(selected["target"]))>>

\* C7: from the selection of a row until the next input event of the
\* role, the role has no stored results, no rows, and its cursor is -1.
C7_ListStaysEmptyAfterSelect ==
    \A role \in Roles :
        sinceSelect[role] =>
            /\ lastResults[role] = << >>
            /\ rows[role] = << >>
            /\ activeIndex[role] = -1

\* C8: every Location normalizeFeatures produces has a string properties.id.
C8_IdIsString ==
    \A i \in DOMAIN normOut : normOut[i].properties["id"].t = "string"

\* rank ?? 9999 of a record, as a number
RankOf(i) ==
    IF IsNullish(props(i)["rank"]) THEN RankSentinel
    ELSE NumberOf(props(i)["rank"]).v

\* a may precede b: the better score, or the same score and no higher rank
RankedBefore(a, b) ==
    \/ a.score < b.score
    \/ a.score = b.score /\ RankOf(a.item) <= RankOf(b.item)

\* the entry of lastResults that the k-th row of the role selects
hitOfRow(role, k) == lastResults[role][rows[role][k].index + 1]

StandaloneRows(role) ==
    { k \in DOMAIN rows[role] : rows[role][k].kind = "standalone" }

\* C9 (as the code has it): the matches of a non-empty query are stored
\* ordered by score, then by rank, and the rows of Locations outside every
\* cluster follow that order; the rows of a cluster come first, grouped
\* under its header, whatever their scores.
C9_MatchesAndStandaloneRowsOrdered ==
    \A role \in Roles :
        lastResults[role] # << >> =>
            /\ \A i, j \in 1..Len(fuseOut) :
                   i < j => RankedBefore(lastResults[role][i],
                                         lastResults[role][j])
            /\ \A i, j \in StandaloneRows(role) :
                   i < j => RankedBefore(hitOfRow(role, i), hitOfRow(role, j))
            /\ \A i, j \in DOMAIN rows[role] :
                   (rows[role][i].kind = "standalone"
                       /\ rows[role][j].kind # "standalone") => j < i

\* two matches of equal score were listed by the matcher in corpus order
\* and stored in rank order, both show as standalone rows, and a cluster
\* row of worse score stands above them
C9_Witness ==
    \E role \in Roles :
        /\ lastResults[role] # << >>
        /\ SubSeq(lastResults[role], 1, Len(fuseOut)) # fuseOut
        /\ \E i, j \in StandaloneRows(role) :
               /\ i < j
               /\ hitOfRow(role, i).score = hitOfRow(role, j).score
               /\ hitOfRow(role, i).item > hitOfRow(role, j).item
               /\ \E m \in DOMAIN rows[role] :
                      /\ rows[role][m].kind = "member"
                      /\ m < i
                      /\ hitOfRow(role, m).score > hitOfRow(role, i).score

\* C9 as stated: of any two selectable rows the upper one has the better
\* score, or the same score and no higher rank.
C9_AllRowsOrdered ==
    \A role \in Roles :
        \A i, j \in DOMAIN rows[role] :
            (i < j /\ rows[role][i].kind # "header"
                   /\ rows[role][j].kind # "header")
                => RankedBefore(hitOfRow(role, i), hitOfRow(role, j))

\* a switch segment (mode 10) that leads from a node to itself
CollapsedSwitch(p) == NumberOf(p.mode) = Num(10) /\ p.source = p.target

SegmentRowsOf(i) ==
    { k \in DOMAIN sidebar :
        sidebar[k].type = "segment" /\ sidebar[k].idx = i - 1 }

Shown == { i \in DOMAIN routeIn : ~CollapsedSwitch(routeIn[i]) }

SwitchByLine(p) ==
    ToLower(StringOf(p.line)) = "switch" /\ p.source = p.target

\* C11: a segment of a displayed route has no segment row exactly when its
\* line name is 'switch' (whatever the case) and its source is its target.
C11_LeftOutIffSwitchLine ==
    lastResponse.outcome = "ok" =>
        \A i \in DOMAIN routeIn :
            (SegmentRowsOf(i) = {}) <=> SwitchByLine(routeIn[i])

(***************************************************************************)
(* SpecSwitch: updateSidebarForRoute on the routes x -> y, y -> y, y -> z  *)
(* whose middle segment is a switch (mode 10, named "switch" or "Switch"); *)
(* "Z" is a node the corpus does not hold.                                 *)
(***************************************************************************)
RouteNodes == {"A", "B", "C", "Z"}

SwitchRoutes ==
    { << Segment(Str(x), Str(y), Str("L1"), Num(m1), Num(5)),
         Segment(Str(y), Str(y), Str(line), Num(10), Num(0)),
         Segment(Str(y), Str(z), Str("L1"), Num(m2), Num(3)) >> :
        x \in RouteNodes, y \in RouteNodes, z \in RouteNodes,
        line \in {"switch", "Switch"}, m1 \in {3, 8}, m2 \in {3, 8} }

InitSwitch ==
    /\ InitControl
    /\ InitFitIdle
    /\ rawIn = << >>
    /\ normOut = << >>
    /\ fuseOut = << >>
    /\ routeIn \in SwitchRoutes

SpecSwitch == InitSwitch /\ [][RouteArrives]_vars

\* the label of the rank the corpus gives the node, "" when it gives none
RankLabelOfNode(id) ==
    LET held == { i \in Items : props(i)["id"] = id }
        first == CHOOSE i \in held : \A j \in held : i <= j
    IN  IF held = {} \/ props(first)["rank"] = Undef THEN ""
        ELSE rankLabel(props(first)["rank"])

C13_MapClickWithoutRoleChangesNothing ==
    [][ (activeRole = "none" /\ \E pt \in ClickPoints : MapClick(pt)) =>
            UNCHANGED <<selected, input, listVars, activeRole, mapCursor,
                        routeVars>> ]_vars

\* C14: a step that empties one slot leaves the other slot as it was.
C14_ClearKeepsOtherSlot ==
    [][ \A role \in Roles :
            (selected[role] # 0 /\ selected'[role] = 0) =>
                selected'[Other(role)] = selected[Other(role)] ]_vars

\* both slots were filled (a route was requested) and one has been emptied
\* since, the other still holding its Location
C14_Witness ==
    /\ reqCount > 0
    /\ \E role \in Roles : selected[role] = 0 /\ selected[Other(role)] # 0

\* the rows of the role that can be selected
SelectableRowSet(role) ==
    { k \in DOMAIN rows[role] : rows[role][k].kind # "header" }

\* C15: a role never shows more than maxSuggestions selectable rows; while
\* rows are shown, selectableIndices counts exactly the selectable ones, the
\* header dividers not.
C15_SelectableRowsCapped ==
    \A role \in Roles :
        /\ Cardinality(SelectableRowSet(role)) <= maxSuggestions
        /\ rows[role] # << >> =>
              Len(selectableIndices[role]) = Cardinality(SelectableRowSet(role))

\* the cap cut the list: maxSuggestions selectable rows under a header
\* divider, and a match that got no row
C15_Witness ==
    \E role \in Roles :
        /\ Cardinality(SelectableRowSet(role)) = maxSuggestions
        /\ Len(rows[role]) > maxSuggestions
        /\ \E h \in DOMAIN fuseOut :
               \A k \in SelectableRowSet(role) :
                   rows[role][k].item # fuseOut[h].item

\* the cursor of every role with selectable rows is the position of one of them
CursorOnSelectableRow ==
    \A role \in Roles :
        Len(selectableRows(role)) > 0 =>
            activeIndex[role] \in 0..(Len(selectableRows(role)) - 1)

\* an arrow key moves the cursor by one position among the selectable rows,
\* circularly
ArrowsWrap ==
    \A role \in Roles :
        LET n == Len(selectableRows(role))
        IN  /\ ArrowKey(role, "ArrowDown") =>
                  activeIndex'[role] = (activeIndex[role] + 1) % n
            /\ ArrowKey(role, "ArrowUp") =>
                  activeIndex'[role] = (activeIndex[role] + n - 1) % n

\* C16: while a role has n > 0 selectable rows its cursor is in 0..n-1, a
\* position among the selectable rows only; ArrowDown and ArrowUp move it by
\* one, from n-1 down to 0 and from 0 up to n-1.
C16_CursorWrapsOverSelectableRows ==
    [] CursorOnSelectableRow /\ [][ArrowsWrap]_vars

\* the cursor stands on the last of several selectable rows, where only
\* ArrowUp from 0 can have put it, in a list that also has a header divider
C16_Witness ==
    \E role \in Roles :
        /\ Len(selectableRows(role)) >= 2
        /\ Len(rows[role]) > Len(selectableRows(role))
        /\ activeIndex[role] = Len(selectableRows(role)) - 1

\* C18: an Escape keydown in an input, and a click outside the whole control,
\* empty the suggestion lists of both roles and leave both slots as they were.
C18_EscapeOrOutsideClickEmptiesLists ==
    [][ ((escaped' /\ ~escaped) \/ DocumentClick) =>
            /\ rows' = EmptyLists
            /\ lastResults' = EmptyLists
            /\ selected' = selected ]_vars

(***************************************************************************)
(* SpecApi: the host drives the control through the returned API only:     *)
(* setSource / setTarget with an identifier or null, getSelected, and      *)
(* writes to the object getSelected returned.                              *)
(***************************************************************************)
\* the identifiers the host passes: those of the corpus ("" is the one of
\* record 4), one no record has, and the number 0
ApiIds == { Str("A"), Str("B"), Str("C"), Str(""), Str("Z"), Num(0) }

\* what the host writes into a field of the returned object
HostValues == {0, 1, 2}

NextApi ==
    \/ \E role \in Roles, arg \in ApiIds \cup {Null} : SetRole(role, arg)
    \/ GetSelected
    \/ \E role \in Roles, v \in HostValues : HostAssign(role, v)

SpecApi == Init /\ [][NextApi]_vars

\* C19: getSelected() returns a copy: a write of the host to a field of the
\* returned object leaves the control's Selection as it was, and a change of
\* the Selection leaves the fields of an object returned earlier as they were.
C19_GetSelectedReturnsCopy ==
    [][ /\ (\E role \in Roles, v \in HostValues : HostAssign(role, v)) =>
               selected' = selected
        /\ selected' # selected => returnedFields' = returnedFields ]_vars

\* the host holds a returned object whose start field names a Location, and
\* the control's start slot holds another one
C19_Witness ==
    /\ returned.held
    /\ returnedFields["source"] # 0
    /\ selected["source"] # 0
    /\ returnedFields["source"] # selected["source"]

\* the corpus Locations that hold the identifier
HeldBy(arg) == { i \in Items : IdStr(i) = StringOf(arg) }

\* C20: setSource(id) / setTarget(id) with an identifier some corpus Location
\* holds fills that slot with a Location holding it and leaves the other slot;
\* with an identifier no corpus Location holds it leaves both slots unchanged.
C20_SetByIdentifier ==
    [][ \A role \in Roles, arg \in ApiIds :
            SetRole(role, arg) =>
                IF HeldBy(arg) # {}
                THEN /\ selected'[role] \in HeldBy(arg)
                     /\ selected'[Other(role)] = selected[Other(role)]
                ELSE selected' = selected ]_vars

\* the corpus points nearer to pt than the tolerance
WithinTolerance(pt) ==
    { i \in Items :
        /\ allFeatures[i].geometry # Undef
        /\ allFeatures[i].geometry.type = "Point"
        /\ dist2(i, pt) < ClickTolerance * ClickTolerance }

\* those of them at minimum distance from pt
Closest(pt) ==
    { i \in WithinTolerance(pt) :
        \A j \in WithinTolerance(pt) : dist2(i, pt) <= dist2(j, pt) }

\* the other slot holds the identifier of a closest point
ClosestIsDuplicate(role, pt) ==
    /\ selected[Other(role)] # 0
    /\ \E i \in Closest(pt) : IdStr(i) = IdStr(selected[Other(role)])

\* C21 as stated: with a role active, a map click with a corpus point within
\* the tolerance assigns to the active role a point at minimum distance
\* within the tolerance.
C21_ClickAssignsNearest ==
    [][ \A pt \in ClickPoints :
            (activeRole # "none" /\ MapClick(pt) /\ WithinTolerance(pt) # {})
                => selected'[activeRole] \in Closest(pt) ]_vars

\* C21: with a role active, a map click with a corpus point within the
\* tolerance assigns to the active role a point at minimum distance within
\* the tolerance, unless the other slot holds that point's identifier, and
\* then neither slot changes; a point at or beyond the tolerance is never
\* assigned.
C21_ClickAssignsNearestUnlessDuplicate ==
    [][ \A pt \in ClickPoints :
            (activeRole # "none" /\ MapClick(pt)) =>
                IF WithinTolerance(pt) = {} THEN selected' = selected
                ELSE IF ClosestIsDuplicate(activeRole, pt)
                     THEN selected' = selected
                     ELSE /\ selected'[activeRole] \in Closest(pt)
                          /\ selected'[Other(activeRole)] =
                                 selected[Other(activeRole)] ]_vars

\* a slot holds record 2, which only a map click assigns in Spec (the click
\* next to it), the other slot record 1
C21_Witness ==
    \E role \in Roles :
        /\ selected[role] = 2
        /\ selected[Other(role)] = 1

\* a map click at pt that finds no corpus point within the tolerance
MissedClick(pt) ==
    /\ activeRole # "none"
    /\ WithinTolerance(pt) = {}
    /\ MapClick(pt)

\* C22: with a role active, a map click with no corpus point within the
\* tolerance changes neither slot and issues no route request, and leaves a
\* timer that focuses the role's input; when that timer has run, the role is
\* the active role again.
C22_MissedClickRefocuses ==
    /\ [][ \A pt \in ClickPoints :
              MissedClick(pt) =>
                  /\ selected' = selected
                  /\ reqCount' = reqCount
                  /\ inflight' = inflight
                  /\ activeRole \in focusTimers' ]_vars
    /\ \A role \in Roles : (role \in focusTimers) ~> (activeRole = role)

\* the state right after a missed click on the destination role: no role is
\* active (the document click handler ran) and the refocus timer is pending,
\* the start slot filled and the destination empty
C22_Witness ==
    /\ activeRole = "none"
    /\ focusTimers = {"target"}
    /\ selected["source"] # 0
    /\ selected["target"] = 0
    /\ mapCursor = "crosshair"

\* a map click at pt whose nearest points within the tolerance all have the
\* identifier the other role's slot holds
DuplicateClick(pt) ==
    /\ activeRole # "none"
    /\ Closest(pt) # {}
    /\ selected[Other(activeRole)] # 0
    /\ \A i \in Closest(pt) : IdStr(i) = IdStr(selected[Other(activeRole)])
    /\ MapClick(pt)

\* C23: with a role active, a map click whose nearest Location within the
\* tolerance has the identifier held by the other role's slot changes neither
\* slot and issues no route request.
C23_DuplicateClickRejected ==
    [][ \A pt \in ClickPoints :
            DuplicateClick(pt) =>
                /\ selected' = selected
                /\ reqCount' = reqCount
                /\ inflight' = inflight ]_vars

\* a state a rejected click on record 2 leaves: the start slot holds record 2,
\* the destination is empty with its refocus timer pending, nothing requested
C23_Witness ==
    /\ selected["source"] = 2
    /\ selected["target"] = 0
    /\ "target" \in focusTimers
    /\ activeRole = "none"
    /\ reqCount = 0

(***************************************************************************)
(* SpecSelect: the three channels of a selection together with the focus   *)
(* of the inputs: typing in the start input, its suggestion rows, Enter,   *)
(* map clicks for either role and the focus timers, under weak fairness of *)
(* the timer callbacks.  The handlers of the two inputs are the same code. *)
(***************************************************************************)
NextSelect ==
    \/ \E role \in Roles : FocusInput(role)
    \/ \E role \in Roles : FocusTimerFire(role)
    \/ \E q \in TypedQueries : InputEvent("source", q)
    \/ DebounceFire("source")
    \/ \E k \in 1..(2 * maxSuggestions) : RowClick("source", k)
    \/ \E role \in Roles : EnterKey(role)
    \/ \E pt \in ClickPoints : MapClick(pt)

SpecSelect ==
    /\ Init
    /\ [][NextSelect]_vars
    /\ \A role \in Roles : WF_vars(FocusTimerFire(role))

\* a step in which a selection for the role completes: by a click on one of
\* its rows, by Enter in its input, by a map click while it is active
SelectedByRow(role) ==
    \E k \in 1..(2 * maxSuggestions) :
        RowClick(role, k) /\ ~noResultAt(role, rows[role][k].index)

SelectedByEnter(role) ==
    EnterKey(role) /\ ~noResultAt(role, enterIndex(role))

SelectedByMap(role) ==
    /\ activeRole = role
    /\ \E pt \in ClickPoints :
          /\ MapClick(pt)
          /\ WithinTolerance(pt) # {}
          /\ ~ClosestIsDuplicate(role, pt)

\* what C24 asks of the state a completed selection for the role leaves
MovesOn(role) ==
    IF selected'[Other(role)] = 0
    THEN Other(role) \in focusTimers'
    ELSE activeRole' = "none"

\* C24: after a selection for a role completes by a row click, by Enter or by
\* a map click: while the other slot is empty a timer that focuses the other
\* role's input is pending, and when it has run the other role is the active
\* role; when both slots are filled no role is active.
C24_SelectionMovesFocus ==
    /\ [][ \A role \in Roles :
              (SelectedByRow(role) \/ SelectedByEnter(role)
                 \/ SelectedByMap(role)) => MovesOn(role) ]_vars
    /\ \A role \in Roles : (role \in focusTimers) ~> (activeRole = role)

\* a slot was filled with record 5 from a suggestion row or by Enter (no
\* click point is near record 5), the other slot is empty, and the timer has
\* run: the role of the empty slot is the active role
C24_Witness ==
    \E role \in Roles :
        /\ selected[role] = 5
        /\ selected[Other(role)] = 0
        /\ sinceSelect[role]
        /\ activeRole = Other(role)
        /\ focusTimers = {}

(***************************************************************************)
(* Node details.  A click on a node card of the itinerary expands it and,  *)
(* the first time, loads the node's lines through fetchNodeLines and its   *)
(* cache; the year slider empties the cache and asks for the route again.  *)
(***************************************************************************)
MaxNodeFetches == 2

\* what renderNodeLines leaves in a lines container (lines 1150-1176)
LinesOfYear(y) == IF y = 1914 THEN "lines of 1914" ELSE "lines of 1900"

renderNodeLines(payload) ==
    IF payload.kind = "data" THEN LinesOfYear(payload.year)
    ELSE "No lines found"

\* el.dataset.nodeId of the card of row k
cardNodeId(k) == StringOf(OrElse(sidebar[k].nodeId, Str("")))

\* the card a fetch was made for is still the one in the sidebar: the
\* sidebar was not rendered again since (sidebar.innerHTML, line 2161)
StillShown(f) ==
    /\ f.shown = lastResponse.n
    /\ f.row \in DOMAIN sidebar
    /\ sidebar[f.row].type = "node"

\* toggleExpand of the card of row k (lines 2167-2193) up to the end of a
\* fetchNodeLines that finds the node in the cache (lines 1064-1066), or up
\* to its fetch (line 1071)
ToggleExpand(k) ==
    /\ k \in DOMAIN sidebar
    /\ sidebar[k].type = "node"
    /\ LET card == sidebar[k]
           id == cardNodeId(k)
           load == ~card.expanded /\ ~card.linesLoaded /\ id # ""
       IN  IF ~load
           THEN /\ sidebar' = [sidebar EXCEPT ![k].expanded = ~card.expanded]
                /\ UNCHANGED nodeVars
           ELSE IF nodeLinesCache[id] # NoPayload
           THEN /\ sidebar' = [sidebar EXCEPT
                                 ![k].expanded = TRUE,
                                 ![k].linesLoaded = TRUE,
                                 ![k].lines = renderNodeLines(nodeLinesCache[id])]
                /\ UNCHANGED nodeVars
           ELSE /\ nodeReqCount < MaxNodeFetches
                /\ sidebar' = [sidebar EXCEPT ![k].expanded = TRUE,
                                              ![k].linesLoaded = TRUE]
                /\ nodeReqCount' = nodeReqCount + 1
                /\ nodeFetches' = nodeFetches \cup
                       {[id |-> id, year |-> year, row |-> k,
                         shown |-> lastResponse.n, n |-> nodeReqCount + 1]}
                /\ UNCHANGED <<year, nodeLinesCache>>
    /\ UNCHANGED <<selected, input, listVars, debounce, activeRole,
                   focusTimers, inflight, reqCount, routeMap, lastResponse,
                   mapCursor, sinceSelect, pureVars, hostVars>>

\* the rest of fetchNodeLines and of toggleExpand once the fetch has ended
\* with payload: the cache entry, then the lines of the card
nodeFetchEnds(f, payload) ==
    /\ f \in nodeFetches
    /\ nodeFetches' = nodeFetches \ {f}
    /\ nodeLinesCache' = [nodeLinesCache EXCEPT ![f.id] = payload]
    /\ IF StillShown(f)
       THEN sidebar' = [sidebar EXCEPT ![f.row].lines = renderNodeLines(payload)]
       ELSE UNCHANGED sidebar
    /\ UNCHANGED <<selected, input, listVars, debounce, activeRole,
                   focusTimers, inflight, reqCount, routeMap, lastResponse,
                   mapCursor, sinceSelect, pureVars, hostVars, year,
                   nodeReqCount>>

\* the node endpoint answered with the lines of the requested year
\* (lines 1072-1081)
NodeFetchOk(f) == nodeFetchEnds(f, Payload("data", f.year))

\* the fetch failed: the catch of fetchNodeLines (lines 1082-1087)
NodeFetchFail(f) == nodeFetchEnds(f, Payload("empty", f.year))

\* input event of the year slider (lines 1231-1237)
YearChange(y) ==
    /\ y # year
    /\ year' = y
    /\ fetchAndRenderRouteIfReady(selected)
    /\ nodeLinesCache' = EmptyCache
    /\ UNCHANGED <<selected, input, listVars, debounce, activeRole,
                   focusTimers, mapCursor, sinceSelect, pureVars, hostVars,
                   nodeFetches, nodeReqCount>>

(***************************************************************************)
(* SpecNode: the route from record 3 to record 2 is displayed, as Spec     *)
(* shows it after setSource("A"), a map click next to record 2 with the    *)
(* destination active and the answer of the route endpoint; the user       *)
(* expands node cards and moves the year slider, the endpoints answer.     *)
(***************************************************************************)
ShownRoute ==
    << Segment(Str("A"), Str("B"), Str("L1"), Num(8), Num(5)) >>

InitNode ==
    /\ selected = [source |-> 3, target |-> 2]
    /\ input = [source |-> "Galata", target |-> "Karakoy"]
    /\ lastResults = EmptyLists
    /\ rows = EmptyLists
    /\ selectableIndices = EmptyLists
    /\ activeIndex = [r \in Roles |-> -1]
    /\ debounce = [r \in Roles |-> 0]
    /\ activeRole = "none"
    /\ focusTimers = {}
    /\ inflight = {}
    /\ reqCount = 1
    /\ routeMap = ShownRoute
    /\ sidebar = updateSidebarForRoute([source |-> 3, target |-> 2], ShownRoute)
    /\ lastResponse = [n |-> 1, outcome |-> "ok"]
    /\ mapCursor = ""
    /\ sinceSelect = [r \in Roles |-> FALSE]
    /\ InitPure
    /\ returned = [held |-> FALSE, alias |-> FALSE,
                   obj |-> [r \in Roles |-> 0]]
    /\ escaped = FALSE
    /\ superseded = [r \in Roles |-> FALSE]
    /\ year = DefaultYear
    /\ nodeLinesCache = EmptyCache
    /\ nodeFetches = {}
    /\ nodeReqCount = 0

NextNode ==
    \/ \E k \in 1..3 : ToggleExpand(k)
    \/ \E f \in nodeFetches : NodeFetchOk(f)
    \/ \E f \in nodeFetches : NodeFetchFail(f)
    \/ \E y \in Years : YearChange(y)
    \/ \E r \in inflight : \E features \in RouteAnswers(r) :
            RouteResponseOk(r, features)
    \/ \E r \in inflight : RouteResponseFail(r)

SpecNode == InitNode /\ [][NextNode]_vars

\* C25: no payload that was requested under another year than the current
\* one is in nodeLinesCache, whether its fetch had ended or was still in
\* flight when the year changed.
C25_CacheHoldsCurrentYearOnly ==
    \A id \in NodeKeys :
        nodeLinesCache[id] # NoPayload => nodeLinesCache[id].year = year

\* C26: when the node-detail fetch of an expanded node card fails, that card
\* shows the 'Failed to load lines' marker, and no other row of the
\* itinerary, the slots and the route on the map change.
C26_FailedFetchMarksCard ==
    [][ \A f \in nodeFetches :
            (NodeFetchFail(f) /\ StillShown(f)) =>
                /\ sidebar'[f.row].lines = "Failed to load lines"
                /\ \A k \in DOMAIN sidebar : k # f.row => sidebar'[k] = sidebar[k]
                /\ selected' = selected
                /\ routeMap' = routeMap ]_vars

(***************************************************************************)
(* fitBoundsForGeoJSON (lines 2221-2354) on point features.  Longitudes    *)
(* and latitudes are whole degrees; a centre is kept doubled, the sum of   *)
(* the two bounds.  The zoom of a box with an area comes from logarithms   *)
(* of the projected box and is not computed here: such a request is        *)
(* marked "fitted".                                                        *)
(***************************************************************************)
MaxFitPoints == 2

RECURSIVE lowest(_, _, _), highest(_, _, _)
\* the bounds addPoint keeps (lines 2227-2232), over the coordinate c
lowest(pts, c, i) ==
    IF i = Len(pts) THEN pts[i][c]
    ELSE LET rest == lowest(pts, c, i + 1)
         IN  IF pts[i][c] < rest THEN pts[i][c] ELSE rest

highest(pts, c, i) ==
    IF i = Len(pts) THEN pts[i][c]
    ELSE LET rest == highest(pts, c, i + 1)
         IN  IF pts[i][c] > rest THEN pts[i][c] ELSE rest

\* Math.max(Math.min(MAX_LAT, lat), -MAX_LAT) with MAX_LAT = 85.05...: whole
\* degrees up to 85 stay, all beyond meet in one value (line 2306)
clampLat(lat) ==
    IF lat > 85 THEN 86 ELSE IF lat < -85 THEN -86 ELSE lat

\* map.getZoom() || 10 (lines 2321, 2347)
zoomOrTen(zoom) == IF zoom = 0 THEN 10 ELSE zoom

easeTo(center, kind, zoom) ==
    [done |-> TRUE, called |-> TRUE, center |-> center, kind |-> kind,
     zoom |-> zoom]

\* fitBoundsForGeoJSON returned without a call of map.easeTo
NoEase == [done |-> TRUE, called |-> FALSE]

fitBoundsForGeoJSON(in) ==
    IF in.points = << >> THEN NoEase
    ELSE
      LET pts == in.points
          minLng == lowest(pts, 1, 1)
          maxLng == highest(pts, 1, 1)
          minLat == lowest(pts, 2, 1)
          maxLat == highest(pts, 2, 1)
          center == << minLng + maxLng, minLat + maxLat >>
          innerWidth == in.width - in.padding.left - in.padding.right
          innerHeight == in.height - in.padding.top - in.padding.bottom
          fallback == easeTo(center, "current", zoomOrTen(in.zoom) - 1)
      IN  IF in.width = 0 \/ in.height = 0 THEN fallback
          ELSE IF innerWidth <= 0 \/ innerHeight <= 0 THEN fallback
          ELSE IF maxLng = minLng \/ clampLat(maxLat) = clampLat(minLat)
          THEN fallback
          ELSE easeTo(center, "fitted", 0)

(***************************************************************************)
(* SpecFit: fitBoundsForGeoJSON on every list of at most MaxFitPoints      *)
(* points of a small grid, for maps of several sizes, paddings and zooms.  *)
(***************************************************************************)
FitPoints == { <<lng, lat>> : lng \in {28, 30}, lat \in {0, 41, 86, 88} }

\* opts.padding or computePaddingFromSidebar(): 60 on every side, the left
\* one up to 60 % of the map's width plus 8 (lines 2251-2276)
FitPaddings ==
    { [top |-> 60, right |-> 60, bottom |-> 60, left |-> l] : l \in {60, 488} }

FitInputs ==
    { [done |-> TRUE, points |-> pts, width |-> w, height |-> h,
       padding |-> pad, zoom |-> z] :
        pts \in UNION { [1..n -> FitPoints] : n \in 0..MaxFitPoints },
        w \in {0, 500, 800}, h \in {0, 600}, pad \in FitPaddings,
        z \in {0, 5} }

InitFit ==
    /\ InitControl
    /\ rawIn = << >>
    /\ normOut = << >>
    /\ fuseOut = << >>
    /\ routeIn = << >>
    /\ fitIn \in FitInputs
    /\ fitOut = NoFit
    /\ altIn = NoFit
    /\ altOut = NoFit
    /\ colIn = NoFit
    /\ colOut = NoFit

FitBounds ==
    /\ fitOut = NoFit
    /\ fitOut' = fitBoundsForGeoJSON(fitIn)
    /\ UNCHANGED <<selected, input, listVars, debounce, activeRole,
                   focusTimers, routeVars, mapCursor, sinceSelect, rawIn,
                   normOut, fuseOut, routeIn, fitIn, altIn, altOut, colIn,
                   colOut, hostVars, nodeVars>>

SpecFit == InitFit /\ [][FitBounds]_vars

\* the box of the points given has no width or no height
ZeroAreaBox ==
    /\ fitIn.points # << >>
    /\ \/ \A i, j \in DOMAIN fitIn.points :
              fitIn.points[i][1] = fitIn.points[j][1]
       \/ \A i, j \in DOMAIN fitIn.points :
              fitIn.points[i][2] = fitIn.points[j][2]

\* the centre of the box, doubled; for a box without width or height the
\* bounds of its flat side are the coordinate of any point
BoxCenter2 ==
    LET S == { fitIn.points[i] : i \in DOMAIN fitIn.points }
        lo(c) == CHOOSE v \in { p[c] : p \in S } : \A p \in S : v <= p[c]
        hi(c) == CHOOSE v \in { p[c] : p \in S } : \A p \in S : v >= p[c]
    IN  << lo(1) + hi(1), lo(2) + hi(2) >>

\* C27: for a box without width or without height, fitBoundsForGeoJSON asks
\* for a view centred on the centre of the box at the current zoom minus
\* one, whatever the size of the map and the padding.
C27_ZeroAreaBoxCentresOneZoomOut ==
    (fitOut.done /\ ZeroAreaBox) =>
        /\ fitOut.called
        /\ fitOut.center = BoxCenter2
        /\ fitOut.zoom = fitIn.zoom - 1

\* the identifier C28 names for a raw record: the top-level id, else
\* properties.id, else properties.ID, else the empty string
ResolvedId(f) ==
    Coalesce(f.id, Coalesce(f.properties["id"],
                            Coalesce(f.properties["ID"], Str(""))))

\* C28: the identifier of every normalized record is the top-level id of the
\* raw record when it has one, else its properties.id, else its
\* properties.ID, else the empty string, as a string.
C28_IdResolvedInOrder ==
    \A i \in DOMAIN normOut :
        normOut[i].properties["id"] = Str(StringOf(ResolvedId(rawIn[i])))

\* C29: the rank of a normalized record is the sentinel when the raw record
\* has no rank or one that is not a number, and the raw rank when that is a
\* number.
C29_RankOrSentinel ==
    \A i \in DOMAIN normOut :
        LET r == rawIn[i].properties["rank"]
        IN  /\ (r = Undef \/ NumberOf(r) = NaN) =>
                  normOut[i].properties["rank"] = Num(RankSentinel)
            /\ r.t = "number" => normOut[i].properties["rank"] = r

\* some record of the whole corpus names the identifier of record i as its
\* cluster parent
NamedAsParent(i) ==
    \E j \in Items : HasCluster(j) /\ StringOf(clusterOf(j)) = IdStr(i)

\* row k of the role's list is a member row under the divider of its own
\* identifier
InsideGroup(role, k) ==
    /\ rows[role][k].kind = "member"
    /\ \E h \in 1..(k - 1) :
           /\ rows[role][h].kind = "header"
           /\ rows[role][h].item # 0
           /\ IdStr(rows[role][h].item) = IdStr(rows[role][k].item)
           /\ \A m \in (h + 1)..k : rows[role][m].kind = "member"

\* the rows that show the Location of record i
RowsOfLocation(role, i) ==
    { k \in DOMAIN rows[role] :
        /\ rows[role][k].kind # "header"
        /\ IdStr(rows[role][k].item) = IdStr(i) }

\* the matches of the displayed list that have no cluster value
PlainMatches == { fuseOut[h].item : h \in { j \in DOMAIN fuseOut :
                                               ~HasCluster(fuseOut[j].item) } }

\* the list has room for another selectable row
RoomLeft(role) == Len(selectableIndices[role]) < maxSuggestions

\* C30: in every displayed list, a match with no cluster value is shown
\* inside the cluster group of its own identifier exactly when some record
\* of the whole corpus, matched or not, names that identifier as its cluster
\* parent, and as a standalone row otherwise; it has a row unless the cap on
\* selectable rows cut the list.
C30_HeaderByWholeCorpus ==
    \A role \in Roles : rows[role] # << >> =>
        \A i \in PlainMatches :
            /\ \A k \in RowsOfLocation(role, i) :
                   IF NamedAsParent(i) THEN InsideGroup(role, k)
                   ELSE rows[role][k].kind = "standalone"
            /\ RoomLeft(role) => RowsOfLocation(role, i) # {}

\* a parent matched and the record that names it did not: it stands under
\* its own divider, and an unnamed match stands alone in the same list
C30_Witness ==
    \E role \in Roles :
        /\ \A h \in DOMAIN fuseOut : ~HasCluster(fuseOut[h].item)
        /\ \E k \in DOMAIN rows[role] :
               /\ rows[role][k].kind = "member"
               /\ rows[role][k].item \in PlainMatches
               /\ NamedAsParent(rows[role][k].item)
        /\ \E k \in DOMAIN rows[role] :
               /\ rows[role][k].kind = "standalone"
               /\ rows[role][k].item \in PlainMatches

\* the divider rows of the role's list that have a header record
Dividers(role) ==
    { h \in DOMAIN rows[role] :
        rows[role][h].kind = "header" /\ rows[role][h].item # 0 }

\* the member rows that stand under divider h
RowsUnder(role, h) ==
    { k \in DOMAIN rows[role] :
        k > h /\ \A m \in (h + 1)..k : rows[role][m].kind = "member" }

\* the records of the corpus a heading for the identifier key may come from:
\* those with non-origin point geometry when there are any, else all with it
HeadingSources(key) ==
    LET withId == { i \in Items : IdStr(i) = key }
        withGeo == { i \in withId : UsableGeometry(i) }
    IN  IF withGeo # {} THEN withGeo ELSE withId

\* a record with no cluster value and the identifier key is among the matches
HeaderMatched(key) ==
    \E h \in DOMAIN fuseOut :
        ~HasCluster(fuseOut[h].item) /\ IdStr(fuseOut[h].item) = key

PulledMemberShown ==
    \E role \in Roles : \E h \in Dividers(role) :
        /\ RoomLeft(role)
        /\ \E k \in RowsUnder(role, h) :
               \A m \in DOMAIN fuseOut : fuseOut[m].item # rows[role][k].item

FirstConstituent(role, key) ==
    LET at == { m \in 1..Len(fuseOut) :
                  LET i == lastResults[role][m].item
                  IN  IF HasCluster(i) THEN StringOf(clusterOf(i)) = key
                      ELSE IdStr(i) = key }
    IN  IF at = {} THEN 0 ELSE CHOOSE m \in at : \A n \in at : m <= n

\* C32: the clusters of a displayed list stand in the order in which their
\* first constituents stand in the ranked matches; under a cluster's divider
\* the header's own row comes first and is there exactly when the header
\* matched, and the member rows follow in corpus order; every standalone row
\* stands below every cluster row.
C32_RenderedOrder ==
    \A role \in Roles :
        /\ \A h1, h2 \in Dividers(role) :
               h1 < h2 =>
                   FirstConstituent(role, IdStr(rows[role][h1].item))
                       < FirstConstituent(role, IdStr(rows[role][h2].item))
        /\ \A h \in Dividers(role) :
               LET own == { k \in RowsUnder(role, h) :
                              ~HasCluster(rows[role][k].item) }
               IN  /\ own # {} <=> HeaderMatched(IdStr(rows[role][h].item))
                   /\ own \subseteq {h + 1}
                   /\ \A k1, k2 \in RowsUnder(role, h) \ own :
                          k1 < k2 => rows[role][k1].item < rows[role][k2].item
        /\ \A i, j \in DOMAIN rows[role] :
               (rows[role][i].kind = "standalone"
                   /\ rows[role][j].kind # "standalone") => j < i

(***************************************************************************)
(* SpecPick: the start role's list rendered from a bounded matcher answer, *)
(* the cursor moved over it, and a row of it selected by a click or by     *)
(* Enter.                                                                  *)
(***************************************************************************)
NextPick ==
    \/ SearchAnswer("source")
    \/ \E key \in ArrowKeys : ArrowKey("source", key)
    \/ \E k \in 1..(2 * maxSuggestions) : RowClick("source", k)
    \/ EnterKey("source")

SpecPick == InitSearch /\ [][NextPick]_vars

\* the selectable rows of the role's list, as positions in rows[role]
PickableRows(role) ==
    { k \in DOMAIN rows[role] : rows[role][k].kind # "header" }

\* the row the cursor stands on: the (activeIndex + 1)-th selectable row
CursorRow(role) ==
    CHOOSE k \in PickableRows(role) :
        Cardinality({ m \in PickableRows(role) : m < k }) = activeIndex[role]

\* the index stored in row k refers to a result that holds the row's record
IndexRefersToRow(role, k) ==
    /\ rows[role][k].index \in 0..(Len(lastResults[role]) - 1)
    /\ lastResults[role][rows[role][k].index + 1].item = rows[role][k].item

\* C33: the index stored in every selectable row, the rows pulled in from
\* the corpus included, refers to the entry of the role's results that holds
\* the Location the row displays; a click on the row, and Enter with the
\* cursor on it, assign that Location to the role.
C33_RowSelectsItsLocation ==
    /\ [](\A role \in Roles : \A k \in PickableRows(role) :
               IndexRefersToRow(role, k))
    /\ [][\A role \in Roles :
             /\ \A k \in PickableRows(role) :
                    RowClick(role, k) => selected'[role] = rows[role][k].item
             /\ (EnterKey(role) /\ activeIndex[role] >= 0
                                /\ PickableRows(role) # {}) =>
                    selected'[role] = rows[role][CursorRow(role)].item]_vars

\* the start slot holds a record that was not among the matches: it was
\* selected from a row pulled in from the corpus
C33_Witness ==
    /\ selected["source"] # 0
    /\ \A m \in DOMAIN fuseOut : fuseOut[m].item # selected["source"]

(***************************************************************************)
(* SpecType: the two inputs typed into, each with one of two texts, and    *)
(* their debounce timers coming due.                                       *)
(***************************************************************************)
BurstQueries == {"ka", "ga"}

NextType ==
    \/ \E role \in Roles, q \in BurstQueries : InputEvent(role, q)
    \/ \E role \in Roles : DebounceFire(role)

SpecType == Init /\ [][NextType]_vars

\* the lists of a role: results, rows and cursor
ListsOf(role) == <<lastResults[role], rows[role], activeIndex[role]>>

\* a step in which a search timer of the role comes due
TimerDue(role) == debounce'[role] < debounce[role]

\* C34: a role never has more than one search timer pending; an input event
\* leaves exactly one pending, whatever was pending before; the timer that
\* comes due runs the search on the text the input holds at that moment and
\* leaves none pending, so a burst of input events runs one search; typing
\* in one role and its timer leave the other role's timer and lists alone.
C34_OneTimerPerRole ==
    /\ [](\A role \in Roles : debounce[role] <= 1)
    /\ [][\A role \in Roles :
             /\ TimerDue(role) =>
                    /\ debounce'[role] = 0
                    /\ rows'[role] = searchResults(fuse_search(input[role])).rows
                    /\ input'[role] = input[role]
                    /\ debounce'[Other(role)] = debounce[Other(role)]
                    /\ ListsOf(Other(role))' = ListsOf(Other(role))
             /\ (debounce'[role] > 0 /\ ~TimerDue(role)) =>
                    /\ debounce'[role] = 1
                    /\ ListsOf(role)' = ListsOf(role)]_vars

\* a burst has happened in one role while the other role's timer is pending:
\* the role's pending timer replaced an earlier one, after a search on
\* another text had filled its list
C34_Witness ==
    \E role \in Roles :
        /\ superseded[role]
        /\ debounce[role] = 1
        /\ debounce[Other(role)] = 1
        /\ rows[role] # << >>
        /\ rows[role] # searchResults(fuse_search(input[role])).rows

\* C35: the map cursor is 'crosshair' exactly while a role is active.
C35_CursorShowsActiveRole ==
    (mapCursor = "crosshair") <=> (activeRole # "none")

(***************************************************************************)
(* SpecName: the slots set through the API and a one-segment route between *)
(* nodes of the corpus (or the unknown node "Z") displayed.                *)
(***************************************************************************)
NameArgs == { Null, Str("A"), Str("C") }

NameRoutes ==
    { << Segment(Str(a), Str(b), Str("L1"), Num(8), Num(5)) >> :
        a \in {"A", "B", "C", "Z"}, b \in {"A", "B", "C", "Z"} }

InitName ==
    /\ InitControl
    /\ InitFitIdle
    /\ rawIn = << >>
    /\ normOut = << >>
    /\ fuseOut = << >>
    /\ routeIn \in NameRoutes

NextName ==
    \/ \E role \in Roles, arg \in NameArgs : SetRole(role, arg)
    \/ RouteArrives

SpecName == InitName /\ [][NextName]_vars

\* the records a display name for the identifier id may come from: the
\* Locations the slots sel hold with it when there are any, else the corpus
\* records with it and non-origin point geometry when there are any, else
\* all corpus records with it
NameSources(sel, id) ==
    LET held == { sel[r] : r \in { x \in Roles :
                                     sel[x] # 0 /\ IdStr(sel[x]) = id } }
    IN  IF held # {} THEN held ELSE HeadingSources(id)

\* C36: when an itinerary is displayed, the label of each of its nodes is
\* the name of the Location a slot holds with the node's identifier if a
\* slot holds one, else the name of a corpus record with that identifier
\* and non-origin point geometry if there is one, else the name of a corpus
\* record with that identifier.
C36_NodeNameSources ==
    [][ sidebar' # sidebar =>
            \A k \in DOMAIN sidebar' :
                (sidebar'[k].type = "node"
                    /\ NameSources(selected, StringOf(sidebar'[k].nodeId)) # {})
                => \E c \in NameSources(selected,
                                         StringOf(sidebar'[k].nodeId)) :
                       sidebar'[k].label = StringOf(props(c)["name"]) ]_vars

\* the itinerary from "A" to "C" or back while the start slot holds the
\* record of "A" that lies at the origin and the destination slot is empty:
\* one name comes from the slot, the other from a record without geometry
C36_Witness ==
    /\ sidebar # << >>
    /\ selected["source"] # 0
    /\ IdStr(selected["source"]) = "A"
    /\ ~UsableGeometry(selected["source"])
    /\ selected["target"] = 0
    /\ \E k \in DOMAIN sidebar :
           sidebar[k].type = "node" /\ StringOf(sidebar[k].nodeId) = "C"
    /\ \E k \in DOMAIN sidebar :
           sidebar[k].type = "node" /\ StringOf(sidebar[k].nodeId) = "A"

(***************************************************************************)
(* SpecAlt: getNodeAlternateNames on every corpus of at most MaxAltLen     *)
(* records of the nodes "A" and "B", asked for node "A".  A record is      *)
(* [id, name]; the names differ in letter case and in a leading blank.     *)
(***************************************************************************)
MaxAltLen == 3

\* String.prototype.trim on the node names of the model
Trim(s) ==
    CASE s = " Galata" -> "Galata"
      [] s = " galata" -> "galata"
      [] OTHER -> s

\* String(name).toLowerCase().trim()
normalizedName(v) == Trim(ToLower(StringOf(v)))

\* alternates that leave out the primary name only
RECURSIVE alternatesNotPrimary(_, _, _, _, _)
alternatesNotPrimary(features, i, nodeId, seen, alternates) ==
    IF i > Len(features) THEN alternates
    ELSE
      LET f == features[i]
          take == /\ f.id = StringOf(nodeId)
                  /\ Truthy(f.name)
                  /\ normalizedName(f.name) # ""
                  /\ normalizedName(f.name) \notin seen
      IN  IF take
          THEN Bind(Append(alternates, StringOf(f.name)), LAMBDA a :
                   alternatesNotPrimary(features, i + 1, nodeId, seen, a))
          ELSE alternatesNotPrimary(features, i + 1, nodeId, seen, alternates)

\* allFeatures.forEach(...) of lines 1888-1898
RECURSIVE alternatesFrom(_, _, _, _, _)
alternatesFrom(features, i, nodeId, seen, alternates) ==
    IF i > Len(features) THEN alternates
    ELSE
      LET f == features[i]
          take == /\ f.id = StringOf(nodeId)
                  /\ Truthy(f.name)
                  /\ normalizedName(f.name) # ""
                  /\ normalizedName(f.name) \notin seen
      IN  IF take
          THEN Bind(<<seen \cup {normalizedName(f.name)},
                      Append(alternates, StringOf(f.name))>>, LAMBDA a :
                   alternatesFrom(features, i + 1, nodeId, a[1], a[2]))
          ELSE alternatesFrom(features, i + 1, nodeId, seen, alternates)

\* seen before the loop: the primary name, normalized, unless it is empty
seenAtStart(primaryName) ==
    LET primaryNormalized == normalizedName(OrElse(primaryName, Str("")))
    IN  IF primaryNormalized # "" THEN {primaryNormalized} ELSE {}

getNodeAlternateNamesRepeated(features, nodeId, primaryName) ==
    IF ~Truthy(nodeId) THEN << >>
    ELSE alternatesNotPrimary(features, 1, nodeId,
                              seenAtStart(primaryName), << >>)

\* getNodeAlternateNames (lines 1874-1901) over the corpus features
getNodeAlternateNames(features, nodeId, primaryName) ==
    IF ~Truthy(nodeId) THEN << >>
    ELSE alternatesFrom(features, 1, nodeId, seenAtStart(primaryName), << >>)

AltNames == { Undef, Str("Galata"), Str("galata"), Str(" Galata"), Str("Pera") }

AltRecords == { [id |-> id, name |-> name] : id \in {"A", "B"}, name \in AltNames }

AltInputs ==
    { [done |-> TRUE, features |-> fs, nodeId |-> Str("A"), primary |-> p] :
        fs \in UNION { [1..n -> AltRecords] : n \in 0..MaxAltLen },
        p \in { Str("Galata"), Str("Pera"), Str("A") } }

InitAlt ==
    /\ InitControl
    /\ rawIn = << >>
    /\ normOut = << >>
    /\ fuseOut = << >>
    /\ routeIn = << >>
    /\ fitIn = NoFit
    /\ fitOut = NoFit
    /\ altIn \in AltInputs
    /\ altOut = NoFit
    /\ colIn = NoFit
    /\ colOut = NoFit

\* the node card of altIn.nodeId is built (line 2052)
AlternateNames ==
    /\ altOut = NoFit
    /\ altOut' = [done |-> TRUE,
                  names |-> getNodeAlternateNames(altIn.features, altIn.nodeId,
                                                  altIn.primary)]
    /\ UNCHANGED <<selected, input, listVars, debounce, activeRole,
                   focusTimers, routeVars, mapCursor, sinceSelect, rawIn,
                   normOut, fuseOut, routeIn, fitIn, fitOut, altIn, colIn,
                   colOut, hostVars, nodeVars>>

SpecAlt == InitAlt /\ [][AlternateNames]_vars

\* the names the corpus of altIn gives the node
CorpusNamesOfNode ==
    { StringOf(altIn.features[i].name) :
        i \in { j \in DOMAIN altIn.features :
                  /\ altIn.features[j].id = StringOf(altIn.nodeId)
                  /\ Truthy(altIn.features[j].name) } }

\* the alternates returned are exactly the names the corpus gives the node,
\* names that Same makes equal listed once, those it makes equal to the
\* primary name left out
AlternatesUpTo(Same(_, _)) ==
    altOut.done =>
        LET out == altOut.names
            primary == StringOf(altIn.primary)
        IN  /\ \A k \in DOMAIN out :
                   out[k] \in CorpusNamesOfNode /\ ~Same(out[k], primary)
            /\ \A k1, k2 \in DOMAIN out : k1 < k2 => ~Same(out[k1], out[k2])
            /\ \A c \in CorpusNamesOfNode :
                   ~Same(c, primary) => \E k \in DOMAIN out : Same(out[k], c)

SameUpToCase(a, b) == ToLower(a) = ToLower(b)

SameUpToCaseAndBlanks(a, b) == Trim(ToLower(a)) = Trim(ToLower(b))

\* C37 (as stated): the alternate names of a node are exactly the names the
\* corpus gives its identifier, names equal up to letter case listed once
\* and the primary display name, compared without regard to case, left out.
C37_AlternatesUpToCase == AlternatesUpTo(SameUpToCase)

\* C37 (as the code has it): the same with names compared without regard to
\* letter case and to blanks at either end.
C37_AlternatesUpToCaseAndBlanks == AlternatesUpTo(SameUpToCaseAndBlanks)

\* the corpus gives the node two names that differ in letter case only and
\* a name equal to the primary name up to case and blanks, and some
\* alternate name is returned
C37_Witness ==
    /\ altOut.done
    /\ altOut.names # << >>
    /\ \E a, b \in CorpusNamesOfNode :
           /\ a # b
           /\ ToLower(a) = ToLower(b)
    /\ \E c \in CorpusNamesOfNode :
           SameUpToCaseAndBlanks(c, StringOf(altIn.primary))

(***************************************************************************)
(* SpecColour: the colours fetchAndRenderRouteIfReady gives the features   *)
(* of a route payload of at most MaxColSegs features.  A feature is        *)
(* [mode, line, id, colour] with Undef for a key it does not have.         *)
(***************************************************************************)
MaxColSegs == 2

palette ==
    << "#1a73e8", "#d32f2f", "#2e7d32", "#fbc02d",
       "#6a1b9a", "#fb8c00", "#1e88e5", "#ec407a" >>

\* two of the orders shuffle(palette.slice()) can return
Shuffles == { palette, [i \in 1..Len(palette) |-> palette[Len(palette) + 1 - i]] }

\* mode.includes('tramway') || mode.includes('metro') on the texts of the
\* model: the names of the tramway and metro modes; no digit string has it
mentionsTram(text) ==
    text \in { "metro", "horse tramway", "electric tramway", "steam tramway" }

\* String((f.properties && f.properties.mode) || '').toLowerCase()
modeLower(f) == ToLower(StringOf(OrElse(f.mode, Str(""))))

\* String((line || id) || `__line_${idx}`), idx counted from 0
lineKey(f, idx) ==
    StringOf(OrElse(OrElse(f.line, f.id), Str("__line_" \o NumStr(idx))))

\* tramKeys after the first loop (lines 2435-2442)
RECURSIVE tramKeys(_, _, _)
tramKeys(features, i, keys) ==
    IF i > Len(features) THEN keys
    ELSE LET key == lineKey(features[i], i - 1)
             isNew == /\ mentionsTram(modeLower(features[i]))
                      /\ \A k \in DOMAIN keys : keys[k] # key
         IN  tramKeys(features, i + 1, IF isNew THEN Append(keys, key) ELSE keys)

\* lineColorMap (lines 2445-2446); nothing reads it
lineColorMap(features, shuffled) ==
    LET keys == tramKeys(features, 1, << >>)
    IN  [k \in { keys[i] : i \in DOMAIN keys } |->
            LET i == CHOOSE j \in DOMAIN keys : keys[j] = k
            IN  shuffled[((i - 1) % Len(shuffled)) + 1]]

\* /^\s*$/.test(apiColour) on the colours of the model
IsBlank(c) == c.t = "string" /\ c.s \in {"", " "}

\* props.ml_color (lines 2454-2459)
mlColor(f) ==
    IF ~Truthy(f.colour) \/ IsBlank(f.colour) THEN Str("#000000") ELSE f.colour

ColourFeatures ==
    { [mode |-> m, line |-> l, id |-> Undef, colour |-> c] :
        m \in { Num(4), Num(7), Num(8), Str("metro") },
        l \in { Undef, Str("T1") },
        c \in { Undef, Str(" "), Str("#d32f2f"), Str("#ff0000") } }

ColourInputs ==
    { [done |-> TRUE, features |-> fs, shuffled |-> s] :
        fs \in UNION { [1..n -> ColourFeatures] : n \in 1..MaxColSegs },
        s \in Shuffles }

InitColour ==
    /\ InitControl
    /\ rawIn = << >>
    /\ normOut = << >>
    /\ fuseOut = << >>
    /\ routeIn = << >>
    /\ fitIn = NoFit
    /\ fitOut = NoFit
    /\ altIn = NoFit
    /\ altOut = NoFit
    /\ colIn \in ColourInputs
    /\ colOut = NoFit

\* the route response colIn.features is prepared for display
ColourRoute ==
    /\ colOut = NoFit
    /\ colOut' = [done |-> TRUE,
                  lineColorMap |-> lineColorMap(colIn.features, colIn.shuffled),
                  ml_color |-> [i \in DOMAIN colIn.features |->
                                   mlColor(colIn.features[i])]]
    /\ UNCHANGED <<selected, input, listVars, debounce, activeRole,
                   focusTimers, routeVars, mapCursor, sinceSelect, rawIn,
                   normOut, fuseOut, routeIn, fitIn, fitOut, altIn, altOut,
                   colIn, hostVars, nodeVars>>

SpecColour == InitColour /\ [][ColourRoute]_vars

\* the features of the payload that travel by tramway or metro
TramOrMetro ==
    { i \in DOMAIN colIn.features :
        \/ mentionsTram(modeIntToName(NumberOf(colIn.features[i].mode)))
        \/ mentionsTram(modeLower(colIn.features[i])) }

\* C38: in a displayed route any two tramway or metro segments with the same
\* line key have the same colour, and the colour of every tramway or metro
\* segment is one of the palette.
C38_LineColoursFromPalette ==
    colOut.done =>
        /\ \A i, j \in TramOrMetro :
               lineKey(colIn.features[i], i - 1) = lineKey(colIn.features[j], j - 1)
                   => colOut.ml_color[i] = colOut.ml_color[j]
        /\ \A i \in TramOrMetro :
               \E k \in DOMAIN palette : colOut.ml_color[i] = Str(palette[k])

(***************************************************************************)
(* The cache entry of a failed node-detail fetch (lines 1082-1087) and the *)
(* expansions of cards it serves (lines 1064-1066, 2174-2183), under       *)
(* SpecNode.                                                               *)
(***************************************************************************)
\* the card of row k would load its lines when toggled (line 2174)
LoadsOnExpand(k) ==
    /\ k \in DOMAIN sidebar
    /\ sidebar[k].type = "node"
    /\ ~sidebar[k].expanded
    /\ ~sidebar[k].linesLoaded
    /\ cardNodeId(k) # ""

\* the cache holds the empty result of a failed fetch for the node id
FailureCached(id) == nodeLinesCache[id].kind = "empty"

\* the requests of nodeFetches for the node id
FetchesOf(fetches, id) == { f \in fetches : f.id = id }

\* C39: a node-detail fetch that fails leaves an empty result in the cache
\* under its node; from then on and as long as the year does not change, the
\* entry stays the empty result, every expansion of a card of that node that
\* loads its lines shows the empty result, and no request for that node is
\* issued.
C39_FailedFetchCached ==
    [][ /\ \A f \in nodeFetches :
                NodeFetchFail(f) => nodeLinesCache'[f.id].kind = "empty"
        /\ \A id \in NodeKeys :
                (FailureCached(id) /\ year' = year) =>
                    /\ nodeLinesCache'[id].kind = "empty"
                    /\ FetchesOf(nodeFetches', id) \subseteq FetchesOf(nodeFetches, id)
                    /\ \A k \in DOMAIN sidebar :
                            (LoadsOnExpand(k) /\ cardNodeId(k) = id /\ ToggleExpand(k)) =>
                                sidebar'[k].lines = renderNodeLines(Payload("empty", year)) ]_vars

====
